---- MODULE Spec2Model ----
(***************************************************************************)
(* ChatGPTTelegramBot (src/bot/telegram_bot.py): the streaming delivery    *)
(* loop of prompt, the chunking function and the budget gate.              *)
(*                                                                         *)
(* Texts are sequences of one-character strings.  Durations are in         *)
(* hundredths of a second (asyncio.sleep(0.01) is 1).  Money is in cents.  *)
(***************************************************************************)
EXTENDS Integers, Sequences, FiniteSets, TLC

VARIABLES
    chunk_size,     \* split_into_chunks' chunk_size (the message capacity)
    is_group_chat,  \* prompt: is_group_chat
    text,           \* the text the backend is generating (frames are its prefixes)
    frame,          \* the (content, tokens) pair the stream yielded last
    nframes,        \* number of frames yielded so far
    i,              \* prompt: i
    prev,           \* prompt: prev
    sent_message,   \* prompt: sent_message (None, or the id of a chat message)
    backoff,        \* prompt: backoff
    chunk,          \* prompt: chunk
    total_tokens,   \* prompt: total_tokens (<<>> while unbound, else <<n>>)
    chat,           \* the messages the transport accepted, by message id
    deleted,        \* ids of the messages the transport deleted
    pc,             \* position of the turn
    sleep_for,      \* duration of the last asyncio.sleep of the loop
    sleep_kind,     \* which sleep of the loop the turn is suspended in
    nsleeps,        \* number of asyncio.sleep calls of the loop so far
    raised,         \* the exception that reached the outer handler of prompt
    did,            \* the branch the last iteration took, with its transport calls
    all_ok,         \* every transport call of the turn so far succeeded
    first_len,      \* length of the first frame of the stream (<<>> before it)
    adds,           \* token counts passed to usage[user_id].add_chat_tokens
    notice,         \* the turn sent 'Failed to get response'
    config,         \* self.config: the budget and access configuration
    usage_logs,     \* what UsageTracker(key, name) loads for each key
    usage,          \* self.usage: the trackers created so far, by key
    today,          \* the wall-clock date, [day, month]
    last,           \* the last operation on the ledger, its update and its result
    chunked,        \* the last call of split_into_chunks: its arguments and its result
    turn,           \* the turn of a handler: its event, its position and its trace
    cut,            \* the last evaluations of the base cutoff: lengths and results
    tasks,          \* concurrent turns of prompt: position and amounts, by task
    cancelled       \* the streaming turn was cancelled

streamVars == <<chunk_size, is_group_chat, text, frame, nframes, i, prev, sent_message,
                backoff, chunk, total_tokens, chat, deleted, pc, sleep_for, sleep_kind,
                nsleeps, raised, did, all_ok, first_len, adds, notice>>

budgetVars == <<config, usage_logs, usage, today, last>>

restVars == <<cut, tasks, cancelled>>

\* what the streaming loop leaves alone
besidesStream == <<budgetVars, chunked, turn, restVars>>

\* what the budget gate and the ledger leave alone
besidesBudget == <<streamVars, chunked, turn, restVars>>

vars == <<streamVars, budgetVars, chunked, turn, restVars>>

----------------------------------------------------------------------------
(* Bounds of the model *)

MaxFrames == 3
SmallCapacity == 10
LargeCapacity == 18

----------------------------------------------------------------------------
(* Texts *)

HelloText ==
    <<"h","e","l","l","o"," ","w","o","r","l","d","!","!"," ","f","i","n","a","l">>

LongText == HelloText \o <<" ", "o", "k">>

Texts == {LongText}

\* lengths of the frames the stream may yield (prefixes of the text)
FrameLengths == {0, 5, 10, 11, 15, 17, 18, 19, 21, 22}

Whitespace == {" ", "\n", "\t"}

NotFinished == <<"n","o","t","_","f","i","n","i","s","h","e","d">>

TokenCounts == {<<"7">>, <<"4","2">>}

None == 0

Min(a, b) == IF a < b THEN a ELSE b

Abs(a) == IF a < 0 THEN 0 - a ELSE a

\* mutant: the slice takes the character at its end offset too
Slice_inclusive(s, a, b) == SubSeq(s, a + 1, Min(b + 1, Len(s)))

\* s[a:b] of a Python string, 0 <= a
Slice(s, a, b) == SubSeq(s, a + 1, Min(b, Len(s)))

RECURSIVE lstrip(_)
lstrip(s) ==
    IF s # <<>> /\ Head(s) \in Whitespace THEN lstrip(Tail(s)) ELSE s

RECURSIVE rstrip(_)
rstrip(s) ==
    IF s # <<>> /\ s[Len(s)] \in Whitespace THEN rstrip(SubSeq(s, 1, Len(s) - 1)) ELSE s

\* str.strip()
strip(s) == rstrip(lstrip(s))

DigitValue ==
    [c \in {"0","1","2","3","4","5","6","7","8","9"} |->
        CASE c = "0" -> 0 [] c = "1" -> 1 [] c = "2" -> 2 [] c = "3" -> 3
          [] c = "4" -> 4 [] c = "5" -> 5 [] c = "6" -> 6 [] c = "7" -> 7
          [] c = "8" -> 8 [] c = "9" -> 9]

RECURSIVE int(_)
\* int(tokens) of a string of decimal digits
int(s) ==
    IF s = <<>> THEN 0
    ELSE int(SubSeq(s, 1, Len(s) - 1)) * 10 + DigitValue[s[Len(s)]]

----------------------------------------------------------------------------
(* split_into_chunks *)

RECURSIVE range_inclusive(_, _, _)
\* mutant: the range includes its stop
range_inclusive(start, stop, step) ==
    IF start > stop THEN <<>>
    ELSE <<start>> \o range_inclusive(start + step, stop, step)

RECURSIVE range(_, _, _)
\* range(start, stop, step), step > 0
range(start, stop, step) ==
    IF start >= stop THEN <<>> ELSE <<start>> \o range(start + step, stop, step)

split_into_chunks(t, size) ==
    LET starts == range(0, Len(t), size)
    IN  [k \in 1..Len(starts) |-> Slice(t, starts[k], starts[k] + size)]

\* bounds on the texts and capacities split_into_chunks is called with
MaxLen == 5
MaxSize == 4

Alphabet == {"a", "b"}

\* the texts of at most n characters
RECURSIVE TextsUpTo(_)
TextsUpTo(n) ==
    IF n = 0 THEN {<<>>}
    ELSE TextsUpTo(n - 1)
         \cup {Append(t, c) : t \in {x \in TextsUpTo(n - 1) : Len(x) = n - 1},
                              c \in Alphabet}

NoSplit == [called |-> FALSE, text |-> <<>>, size |-> 1, result |-> <<>>]

\* a call split_into_chunks(text, chunk_size)
SplitIntoChunks ==
    /\ \E t \in TextsUpTo(MaxLen), size \in 1..MaxSize :
         chunked' = [called |-> TRUE, text |-> t, size |-> size,
                   result |-> split_into_chunks(t, size)]
    /\ UNCHANGED <<streamVars, budgetVars, turn, restVars>>

NoCut == [called |-> FALSE]

NoTasks == <<>>

----------------------------------------------------------------------------
(* The transport (telegram.Bot), an external collaborator *)

RetryAfters == {1, 3}

SendAnswers == {"ok", "retry_after", "timed_out", "error"}

EditAnswers == {"ok", "bad_request", "retry_after", "timed_out", "error"}

DeleteAnswers == {"ok", "error"}

\* the answers to the Markdown edit and to the plain edit that follows a BadRequest
EditAnswerPairs ==
    {<<a, "ok">> : a \in EditAnswers \ {"bad_request"}}
        \cup {<<"bad_request", b>> : b \in EditAnswers}

Message(t, reply) == [text |-> t, reply |-> reply]

\* bot.send_message: the chat after the call
TransportSend(msgs, t, reply, ans) ==
    IF ans = "ok" THEN Append(msgs, Message(t, reply)) ELSE msgs

\* bot.edit_message_text: what the transport answers; an edit that changes
\* nothing is answered BadRequest("Message is not modified")
TransportEditAnswer(msgs, id, t, ans) ==
    IF ans = "ok" /\ msgs[id].text = t THEN "not_modified" ELSE ans

TransportEdit(msgs, id, t, ans) ==
    IF ans = "ok" THEN [msgs EXCEPT ![id].text = t] ELSE msgs

Call(op, id, t, answer, r) ==
    [op |-> op, msg |-> id, text |-> t, answer |-> answer,
     retry_after |-> IF answer = "retry_after" THEN r ELSE 0]


----------------------------------------------------------------------------
(* edit_message_with_retry *)

\* a: the transport's answer to the Markdown edit; b: its answer to the plain
\* edit tried after a BadRequest.  raised is the exception that leaves the call.
edit_message_with_retry(msgs, id, t, a, b) ==
    LET first  == TransportEditAnswer(msgs, id, t, a)
        second == TransportEditAnswer(msgs, id, t, b)
    IN  CASE first = "ok" ->
               [raised |-> "none", chat |-> TransportEdit(msgs, id, t, "ok")]
          [] first = "not_modified" ->
               [raised |-> "none", chat |-> msgs]
          [] first = "bad_request" ->
               IF second = "ok"
               THEN [raised |-> "none", chat |-> TransportEdit(msgs, id, t, "ok")]
               ELSE [raised |-> IF second \in {"retry_after", "timed_out"}
                                THEN second ELSE "error",
                     chat |-> msgs]
          [] OTHER ->
               [raised |-> first, chat |-> msgs]

----------------------------------------------------------------------------
(* prompt: the streaming loop *)

BackoffIncrement == 5
PacingDelay == 1
TimeoutSleep == 50

\* asyncio.sleep takes seconds
Seconds(r) == r * 100

\* mutant: the open message is closed with the first chunk
closing_chunk_first(cs) == cs[1]

\* chunks[-2], the text the open message is closed with
closing_chunk(cs) == cs[Len(cs) - 1]

\* chunks[-1]
last_chunk(cs) == cs[Len(cs)]

content_of(f) ==
    LET cs == split_into_chunks(f.content, chunk_size)
    IN  IF Len(cs) > 1 THEN last_chunk(cs) ELSE f.content

chunks == split_into_chunks(frame.content, chunk_size)

\* content, after "content = chunks[-1]"
content == content_of(frame)

IsBlank == Len(strip(frame.content)) = 0

IsRollover == Len(chunks) > 1 /\ chunk # Len(chunks) - 1

\* mutant: group chats get the cutoff of private chats
base_cutoff_private(n, group) ==
    IF n > 1000 THEN 90 ELSE IF n > 200 THEN 45 ELSE IF n > 50 THEN 25 ELSE 15

base_cutoff(n, group) ==
    IF group
    THEN (IF n > 1000 THEN 180 ELSE IF n > 200 THEN 120 ELSE IF n > 50 THEN 90 ELSE 50)
    ELSE (IF n > 1000 THEN 90 ELSE IF n > 200 THEN 45 ELSE IF n > 50 THEN 25 ELSE 15)

cutoff == base_cutoff(Len(content), is_group_chat) + backoff

IsFinal(f) == f.tokens # NotFinished

\* mutant: an edit is due when the difference reaches the cutoff
EditDue_inclusive == Abs(Len(content) - Len(prev)) >= cutoff \/ IsFinal(frame)

\* "abs(len(content) - len(prev)) > cutoff or tokens != 'not_finished'"
EditDue == Abs(Len(content) - Len(prev)) > cutoff \/ IsFinal(frame)

\* "i += 1; if tokens != 'not_finished': total_tokens = int(tokens)"
EndOfIteration ==
    /\ i' = i + 1
    /\ total_tokens' = IF IsFinal(frame) THEN <<int(frame.tokens)>> ELSE total_tokens

\* the branch an iteration took and its transport calls, with the values of
\* backoff, the sleep count and the message count when the iteration began
Did(branch, calls) ==
    [branch |-> branch, frame |-> nframes, calls |-> calls,
     backoff |-> backoff, nsleeps |-> nsleeps, nmsgs |-> Len(chat)]

CallsOk(calls) == \A k \in 1..Len(calls) : calls[k].answer = "none"

Raised(ans) == IF ans = "ok" THEN "none" ELSE ans

\* mutant: the edit of line 383 is guarded by "except RetryAfter" alone
Swallowed_retry_after_only(site, exc) ==
    site # "edit" \/ exc = "retry_after"

\* mutant: the closing edit of a rollover is not guarded
Swallowed_not_rollover_edit(site, exc) == site # "rollover_edit"

\* mutant: the first send is not guarded
Swallowed_not_first(site, exc) == site # "first"

\* which exceptions the try block around a transport call of the loop catches:
\* bare "except:" at lines 347, 354 and 376; RetryAfter, TimedOut and Exception
\* at lines 385-395
Swallowed(site, exc) ==
    CASE site = "rollover_edit" -> TRUE
      [] site = "rollover_send" -> TRUE
      [] site = "first" -> TRUE
      [] site = "edit" -> exc \in {"retry_after", "timed_out", "error"}

Escapes(site, exc) == exc # "none" /\ ~Swallowed(site, exc)

stream_config == <<chunk_size, is_group_chat, text>>

\* the stream is exhausted once it has yielded its final frame
Exhausted == nframes > 0 /\ IsFinal(frame)

\* "async for content, tokens in stream_response": the next frame arrives
Fetch ==
    /\ pc = "fetch"
    /\ UNCHANGED besidesStream
    /\ ~Exhausted
    /\ nframes < MaxFrames
    /\ \E n \in {m \in FrameLengths : Len(frame.content) <= m /\ m <= Len(text)},
          fin \in BOOLEAN :
         /\ (nframes + 1 = MaxFrames) => fin
         /\ \E t \in (IF fin THEN TokenCounts ELSE {NotFinished}) :
              frame' = [content |-> SubSeq(text, 1, n), tokens |-> t]
         /\ first_len' = IF nframes = 0 THEN <<n>> ELSE first_len
    /\ nframes' = nframes + 1
    /\ pc' = "body"
    /\ UNCHANGED <<stream_config, i, prev, sent_message, backoff, chunk, total_tokens, chat,
                   deleted, sleep_for, sleep_kind, nsleeps, raised, did, all_ok, adds,
                   notice>>

\* "if len(content.strip()) == 0: continue"
SkipBlank ==
    /\ pc = "body"
    /\ UNCHANGED besidesStream
    /\ IsBlank
    /\ pc' = "fetch"
    /\ did' = Did("blank", <<>>)
    /\ UNCHANGED <<stream_config, frame, nframes, i, prev, sent_message, backoff, chunk,
                   total_tokens, chat, deleted, sleep_for, sleep_kind, nsleeps, raised,
                   all_ok, first_len, adds, notice>>

\* lines 341-356: the text crossed a size boundary
Rollover ==
    /\ pc = "body"
    /\ UNCHANGED besidesStream
    /\ ~IsBlank
    /\ IsRollover
    /\ chunk' = chunk + 1
    /\ IF sent_message = None
       THEN \* sent_message.message_id and sent_message.chat_id raise
            \* AttributeError inside both try blocks: no transport call
            LET esc == Escapes("rollover_edit", "error") \/ Escapes("rollover_send", "error")
            IN  /\ did' = Did("rollover", <<>>)
                /\ pc' = IF esc THEN "except" ELSE "fetch"
                /\ raised' = IF esc THEN "error" ELSE raised
                /\ UNCHANGED <<chat, sent_message, all_ok>>
       ELSE \E ab \in EditAnswerPairs, s \in SendAnswers, r \in RetryAfters :
              LET closing  == closing_chunk(chunks)
                  e        == edit_message_with_retry(chat, sent_message, closing,
                                                      ab[1], ab[2])
                  esc_edit == Escapes("rollover_edit", e.raised)
                  opening  == IF Len(content) > 0 THEN content ELSE <<".", ".", ".">>
                  sent     == ~esc_edit /\ s = "ok"
                  after    == IF sent THEN TransportSend(e.chat, opening, FALSE, s)
                                      ELSE e.chat
                  esc_send == ~esc_edit /\ Escapes("rollover_send", Raised(s))
                  calls    == << Call("edit", sent_message, closing, e.raised, r) >>
                              \o (IF esc_edit THEN <<>>
                                  ELSE << Call("send", None, opening, Raised(s), r) >>)
              IN  /\ chat' = after
                  /\ sent_message' = IF sent THEN Len(after) ELSE sent_message
                  /\ did' = Did("rollover", calls)
                  /\ all_ok' = (all_ok /\ CallsOk(calls))
                  /\ pc' = IF esc_edit \/ esc_send THEN "except" ELSE "fetch"
                  /\ raised' = IF esc_edit THEN e.raised
                               ELSE IF esc_send THEN Raised(s) ELSE raised
    /\ UNCHANGED <<stream_config, frame, nframes, i, prev, backoff, total_tokens, deleted,
                   sleep_for, sleep_kind, nsleeps, first_len, adds, notice>>

\* lines 366-377 and 401-403: the first frame of the turn
FirstSend ==
    /\ pc = "body"
    /\ UNCHANGED besidesStream
    /\ ~IsBlank
    /\ ~IsRollover
    /\ i = 0
    /\ \E d \in DeleteAnswers, s \in SendAnswers, r \in RetryAfters :
         LET stale    == sent_message # None
             del_ok   == ~stale \/ d = "ok"
             exc      == IF del_ok THEN Raised(s) ELSE Raised(d)
             calls    == (IF stale
                          THEN << Call("delete", sent_message, <<>>, Raised(d), r) >>
                          ELSE <<>>)
                         \o (IF del_ok
                             THEN << Call("send", None, content, Raised(s), r) >>
                             ELSE <<>>)
             after    == TransportSend(chat, content, TRUE, s)
         IN  /\ deleted' = IF stale /\ d = "ok" THEN deleted \cup {sent_message}
                                                ELSE deleted
             /\ did' = Did("first", calls)
             /\ all_ok' = (all_ok /\ CallsOk(calls))
             /\ IF exc = "none"
                THEN /\ chat' = after
                     /\ sent_message' = Len(after)
                     /\ EndOfIteration
                     /\ pc' = "fetch"
                     /\ UNCHANGED raised
                ELSE \* "except: continue"
                     /\ pc' = IF Escapes("first", exc) THEN "except" ELSE "fetch"
                     /\ raised' = IF Escapes("first", exc) THEN exc ELSE raised
                     /\ UNCHANGED <<chat, sent_message, i, total_tokens>>
    /\ UNCHANGED <<stream_config, frame, nframes, prev, backoff, chunk, sleep_for,
                   sleep_kind, nsleeps, first_len, adds, notice>>

\* mutant: the fixed delay of the TimedOut branch is slept instead
RetryAfterSleep_fixed(r) == TimeoutSleep

\* asyncio.sleep(e.retry_after)
RetryAfterSleep(r) == Seconds(r)

\* mutant: every failure of the edit is handled like TimedOut
EditHandler_error_suspends(exc, r) ==
    IF exc = "none"
    THEN [backoff |-> 0, kind |-> "pacing", sleep |-> PacingDelay]
    ELSE [backoff |-> BackoffIncrement, kind |-> "timed_out", sleep |-> TimeoutSleep]

\* lines 385-399: what the loop does with the outcome of the edit
EditHandler(exc, r) ==
    CASE exc = "retry_after" ->
           [backoff |-> BackoffIncrement, kind |-> "retry_after",
            sleep |-> RetryAfterSleep(r)]
      [] exc = "timed_out" ->
           [backoff |-> BackoffIncrement, kind |-> "timed_out", sleep |-> TimeoutSleep]
      [] exc = "error" ->
           [backoff |-> BackoffIncrement, kind |-> "none", sleep |-> 0]
      [] OTHER ->
           [backoff |-> 0, kind |-> "pacing", sleep |-> PacingDelay]

\* lines 379-399: a later frame whose edit is due
Edit ==
    /\ pc = "body"
    /\ UNCHANGED besidesStream
    /\ ~IsBlank
    /\ ~IsRollover
    /\ i # 0
    /\ EditDue
    /\ prev' = content
    /\ \E ab \in EditAnswerPairs, r \in RetryAfters :
         LET e == IF sent_message = None
                  THEN [raised |-> "error", chat |-> chat]
                  ELSE edit_message_with_retry(chat, sent_message, content,
                                               ab[1], ab[2])
             calls == IF sent_message = None THEN <<>>
                      ELSE << Call("edit", sent_message, content, e.raised, r) >>
             h == EditHandler(e.raised, r)
         IN  /\ chat' = e.chat
             /\ did' = Did("edit", calls)
             /\ all_ok' = (all_ok /\ CallsOk(calls))
             /\ IF Escapes("edit", e.raised)
                THEN /\ pc' = "except"
                     /\ raised' = e.raised
                     /\ UNCHANGED <<backoff, sleep_kind, sleep_for, nsleeps>>
                ELSE /\ backoff' = backoff + h.backoff
                     /\ sleep_kind' = h.kind
                     /\ sleep_for' = IF h.kind = "none" THEN sleep_for ELSE h.sleep
                     /\ nsleeps' = IF h.kind = "none" THEN nsleeps ELSE nsleeps + 1
                     /\ pc' = IF h.kind = "none" THEN "fetch" ELSE "sleep"
                     /\ UNCHANGED raised
    /\ UNCHANGED <<stream_config, frame, nframes, i, sent_message, chunk, total_tokens,
                   deleted, first_len, adds, notice>>

\* a later frame whose edit is suppressed by the cutoff
Suppress ==
    /\ pc = "body"
    /\ UNCHANGED besidesStream
    /\ ~IsBlank
    /\ ~IsRollover
    /\ i # 0
    /\ ~EditDue
    /\ EndOfIteration
    /\ did' = Did("suppress", <<>>)
    /\ pc' = "fetch"
    /\ UNCHANGED <<stream_config, frame, nframes, prev, sent_message, backoff, chunk, chat,
                   deleted, sleep_for, sleep_kind, nsleeps, raised, all_ok, first_len,
                   adds, notice>>

\* mutant: the frame whose edit failed is processed again after the sleep
AfterTransient_same_frame == "body"

\* where the loop resumes after the sleep of a RetryAfter or TimedOut: "continue"
AfterTransient == "fetch"

\* an asyncio.sleep of the loop returns
Wake ==
    /\ pc = "sleep"
    /\ UNCHANGED besidesStream
    /\ IF sleep_kind = "pacing"
       THEN /\ EndOfIteration
            /\ pc' = "fetch"
       ELSE /\ pc' = AfterTransient
            /\ UNCHANGED <<i, total_tokens>>
    /\ sleep_kind' = "none"
    /\ UNCHANGED <<stream_config, frame, nframes, prev, sent_message, backoff, chunk, chat,
                   deleted, sleep_for, nsleeps, raised, did, all_ok, first_len, adds,
                   notice>>

\* lines 419-427: the stream is exhausted; total_tokens unbound raises
\* UnboundLocalError, which "except: pass" swallows
Record ==
    /\ pc = "fetch"
    /\ UNCHANGED besidesStream
    /\ Exhausted
    /\ adds' = IF total_tokens = <<>> THEN adds ELSE Append(adds, total_tokens[1])
    /\ pc' = "done"
    /\ UNCHANGED <<stream_config, frame, nframes, i, prev, sent_message, backoff, chunk,
                   total_tokens, chat, deleted, sleep_for, sleep_kind, nsleeps, raised,
                   did, all_ok, first_len, notice>>

\* the backend raises while the next frame is awaited
StreamError ==
    /\ pc = "fetch"
    /\ UNCHANGED besidesStream
    /\ ~Exhausted
    /\ raised' = "upstream"
    /\ pc' = "except"
    /\ UNCHANGED <<stream_config, frame, nframes, i, prev, sent_message, backoff, chunk,
                   total_tokens, chat, deleted, sleep_for, sleep_kind, nsleeps, did,
                   all_ok, first_len, adds, notice>>

\* lines 429-435: "except Exception as e" sends 'Failed to get response: ...'
OuterHandler ==
    /\ pc = "except"
    /\ UNCHANGED besidesStream
    /\ \E s \in SendAnswers : notice' = (s = "ok")
    /\ pc' = "failed"
    /\ UNCHANGED <<stream_config, frame, nframes, i, prev, sent_message, backoff, chunk,
                   total_tokens, chat, deleted, sleep_for, sleep_kind, nsleeps, raised,
                   did, all_ok, first_len, adds>>

StreamInit ==
    /\ chunk_size \in {SmallCapacity, LargeCapacity}
    /\ is_group_chat \in BOOLEAN
    /\ text \in Texts
    /\ frame = [content |-> <<>>, tokens |-> NotFinished]
    /\ nframes = 0
    /\ i = 0
    /\ prev = <<>>
    /\ sent_message = None
    /\ backoff = 0
    /\ chunk = 0
    /\ total_tokens = <<>>
    /\ chat = <<>>
    /\ deleted = {}
    /\ pc = "fetch"
    /\ sleep_for = 0
    /\ sleep_kind = "none"
    /\ nsleeps = 0
    /\ raised = "none"
    /\ did = [branch |-> "none", frame |-> 0, calls |-> <<>>,
              backoff |-> 0, nsleeps |-> 0, nmsgs |-> 0]
    /\ all_ok = TRUE
    /\ first_len = <<>>
    /\ adds = <<>>
    /\ notice = FALSE

StreamNext ==
    \/ Fetch
    \/ SkipBlank
    \/ Rollover
    \/ FirstSend
    \/ Edit
    \/ Suppress
    \/ Wake
    \/ Record
    \/ StreamError
    \/ OuterHandler

----------------------------------------------------------------------------
(* Cancellation of the turn: asyncio.CancelledError is raised at the await the
   turn is suspended in; it is a BaseException, which a bare "except:" catches
   and "except Exception" does not *)

Cancelled == "cancelled"

\* the turn is unwound: CancelledError passes "except Exception" of line 429
Unwound ==
    /\ pc' = "cancelled"
    /\ raised' = Cancelled
    /\ cancelled' = TRUE

\* line 336: cancelled while the next frame is awaited
CancelFetch ==
    /\ pc = "fetch"
    /\ ~cancelled
    /\ ~Exhausted
    /\ Unwound
    /\ UNCHANGED <<stream_config, frame, nframes, i, prev, sent_message, backoff, chunk,
                   total_tokens, chat, deleted, sleep_for, sleep_kind, nsleeps, did,
                   all_ok, first_len, adds, notice>>
    /\ UNCHANGED <<budgetVars, chunked, turn, cut, tasks>>

\* lines 387, 392 and 399: cancelled in asyncio.sleep; the sleeps of the handlers
\* are outside the try of line 382 they belong to
CancelSleep ==
    /\ pc = "sleep"
    /\ ~cancelled
    /\ Unwound
    /\ sleep_kind' = "none"
    /\ UNCHANGED <<stream_config, frame, nframes, i, prev, sent_message, backoff, chunk,
                   total_tokens, chat, deleted, sleep_for, nsleeps, did, all_ok,
                   first_len, adds, notice>>
    /\ UNCHANGED <<budgetVars, chunked, turn, cut, tasks>>

\* line 383: cancelled while the edit is in flight; the transport may or may not
\* have applied it; none of lines 385-395 catches CancelledError
CancelEdit ==
    /\ pc = "body"
    /\ ~cancelled
    /\ ~IsBlank
    /\ ~IsRollover
    /\ i # 0
    /\ EditDue
    /\ sent_message # None
    /\ Escapes("edit", Cancelled)
    /\ prev' = content
    /\ chat' \in {chat, TransportEdit(chat, sent_message, content, "ok")}
    /\ did' = Did("edit", << Call("edit", sent_message, content, Cancelled, 0) >>)
    /\ all_ok' = FALSE
    /\ Unwound
    /\ UNCHANGED <<stream_config, frame, nframes, i, sent_message, backoff, chunk,
                   total_tokens, deleted, sleep_for, sleep_kind, nsleeps, first_len,
                   adds, notice>>
    /\ UNCHANGED <<budgetVars, chunked, turn, cut, tasks>>

\* lines 366-377: cancelled while the first send is in flight; the transport may
\* or may not have delivered it; "except: continue" of line 376 catches
\* CancelledError and the loop goes on to the next frame
CancelFirstSend ==
    /\ pc = "body"
    /\ ~cancelled
    /\ ~IsBlank
    /\ ~IsRollover
    /\ i = 0
    /\ sent_message = None
    /\ chat' \in {chat, TransportSend(chat, content, TRUE, "ok")}
    /\ did' = Did("first", << Call("send", None, content, Cancelled, 0) >>)
    /\ all_ok' = FALSE
    /\ cancelled' = TRUE
    /\ IF Swallowed("first", Cancelled)
       THEN pc' = "fetch" /\ UNCHANGED raised
       ELSE pc' = "cancelled" /\ raised' = Cancelled
    /\ UNCHANGED <<stream_config, frame, nframes, i, prev, sent_message, backoff, chunk,
                   total_tokens, deleted, sleep_for, sleep_kind, nsleeps, first_len,
                   adds, notice>>
    /\ UNCHANGED <<budgetVars, chunked, turn, cut, tasks>>

\* lines 345-348: cancelled while the closing edit of a rollover is in flight;
\* "except: pass" of line 347 catches CancelledError and the send of line 350
\* is next
CancelRolloverEdit ==
    /\ pc = "body"
    /\ ~cancelled
    /\ ~IsBlank
    /\ IsRollover
    /\ sent_message # None
    /\ chunk' = chunk + 1
    /\ chat' \in {chat, TransportEdit(chat, sent_message, closing_chunk(chunks), "ok")}
    /\ did' = Did("rollover", << Call("edit", sent_message, closing_chunk(chunks),
                                      Cancelled, 0) >>)
    /\ all_ok' = FALSE
    /\ cancelled' = TRUE
    /\ IF Swallowed("rollover_edit", Cancelled)
       THEN pc' = "rollover_send" /\ UNCHANGED raised
       ELSE pc' = "cancelled" /\ raised' = Cancelled
    /\ UNCHANGED <<stream_config, frame, nframes, i, prev, sent_message, backoff,
                   total_tokens, deleted, sleep_for, sleep_kind, nsleeps, first_len,
                   adds, notice>>
    /\ UNCHANGED <<budgetVars, chunked, turn, cut, tasks>>

\* lines 349-356: the send of a rollover whose closing edit was cancelled
RolloverSend ==
    /\ pc = "rollover_send"
    /\ \E s \in SendAnswers, r \in RetryAfters :
         LET opening == IF Len(content) > 0 THEN content ELSE <<".", ".", ".">>
             after   == TransportSend(chat, opening, FALSE, s)
             esc     == Escapes("rollover_send", Raised(s))
         IN  /\ chat' = after
             /\ sent_message' = IF s = "ok" THEN Len(after) ELSE sent_message
             /\ did' = Did("rollover", << Call("send", None, opening, Raised(s), r) >>)
             /\ pc' = IF esc THEN "except" ELSE "fetch"
             /\ raised' = IF esc THEN Raised(s) ELSE raised
    /\ UNCHANGED <<stream_config, frame, nframes, i, prev, backoff, chunk, total_tokens,
                   deleted, sleep_for, sleep_kind, nsleeps, all_ok, first_len, adds,
                   notice>>
    /\ UNCHANGED <<budgetVars, chunked, turn, cut, tasks, cancelled>>

\* lines 349-356: cancelled while the send of a rollover is in flight, after a
\* closing edit that was applied; "except: pass" of line 354 catches it
CancelRolloverSend ==
    /\ pc = "body"
    /\ ~cancelled
    /\ ~IsBlank
    /\ IsRollover
    /\ sent_message # None
    /\ chunk' = chunk + 1
    /\ LET closing == closing_chunk(chunks)
           e       == edit_message_with_retry(chat, sent_message, closing, "ok", "ok")
           opening == IF Len(content) > 0 THEN content ELSE <<".", ".", ".">>
       IN  /\ chat' \in {e.chat, TransportSend(e.chat, opening, FALSE, "ok")}
           /\ did' = Did("rollover",
                         << Call("edit", sent_message, closing, e.raised, 0),
                            Call("send", None, opening, Cancelled, 0) >>)
    /\ all_ok' = FALSE
    /\ cancelled' = TRUE
    /\ IF Swallowed("rollover_send", Cancelled)
       THEN pc' = "fetch" /\ UNCHANGED raised
       ELSE pc' = "cancelled" /\ raised' = Cancelled
    /\ UNCHANGED <<stream_config, frame, nframes, i, prev, sent_message, backoff,
                   total_tokens, deleted, sleep_for, sleep_kind, nsleeps, first_len,
                   adds, notice>>
    /\ UNCHANGED <<budgetVars, chunked, turn, cut, tasks>>

CancelNext ==
    \/ StreamNext
    \/ CancelFetch
    \/ CancelSleep
    \/ CancelEdit
    \/ CancelFirstSend
    \/ CancelRolloverEdit
    \/ RolloverSend
    \/ CancelRolloverSend

----------------------------------------------------------------------------
(* The base cutoff of lines 358-362, evaluated alone *)

\* content lengths around the steps of the cutoff, up to the capacity 4096
CutoffLengths == {0, 1, 49, 50, 51, 199, 200, 201, 999, 1000, 1001, 4096}

\* lines 358-362 for two content lengths n <= m in one kind of chat, and for n
\* in the other kind of chat
BaseCutoff ==
    /\ \E n \in CutoffLengths, m \in CutoffLengths, group \in BOOLEAN :
         /\ n <= m
         /\ cut' = [called |-> TRUE, n |-> n, m |-> m, group |-> group,
                    at_n |-> base_cutoff(n, group),
                    at_m |-> base_cutoff(m, group),
                    other_at_n |-> base_cutoff(n, ~group)]
    /\ UNCHANGED <<streamVars, budgetVars, chunked, turn, tasks, cancelled>>

----------------------------------------------------------------------------
(* Strings of the configuration *)

Digits == <<"0","1","2","3","4","5","6","7","8","9">>

RECURSIVE str(_)
\* str(n) of an int n >= 0
str(n) == IF n < 10 THEN <<Digits[n + 1]>> ELSE str(n \div 10) \o <<Digits[(n % 10) + 1]>>

RECURSIVE split_from(_, _, _)
split_from(s, sep, word) ==
    IF s = <<>> THEN <<word>>
    ELSE IF Head(s) = sep THEN <<word>> \o split_from(Tail(s), sep, <<>>)
    ELSE split_from(Tail(s), sep, Append(word, Head(s)))

\* s.split(sep), sep one character
split(s, sep) == split_from(s, sep, <<>>)

\* "x in list"
In(x, list) == \E k \in 1..Len(list) : list[k] = x

\* list.index(x), x in list
index(list, x) == (CHOOSE k \in 1..Len(list) :
                      list[k] = x /\ \A j \in 1..(k - 1) : list[j] # x) - 1

\* float(s) of a budget, in cents
float(s) == int(s)

----------------------------------------------------------------------------
(* The ledger: UsageTracker, a module of the repository that is not among the
   sources; modelled from the data model and the contract of the usage ledger *)

\* the key 'guests' of self.usage; user ids are positive
GUESTS == 0

\* the dates the clock passes through, counted from the first day of month 1
MaxDate == 3

\* days of a month of the calendar
DaysPerMonth == 2
\* chat tokens one tracker records within a month
MaxTokens == 2

UserIds == {1, 2}

Keys == UserIds \cup {GUESTS}

\* month costs, in cents, a tracker may load
Costs == {0, 499}

TokenAmounts == {1, 2}

NewTracker(cost) ==
    [tokens_today |-> 0, tokens_month |-> 0, images_today |-> 0, images_month |-> 0,
     seconds_today |-> 0, seconds_month |-> 0, cost_today |-> 0, cost_month |-> cost,
     day |-> 1, month |-> 1]

\* UsageTracker(key, name)
UsageTracker(key) == usage_logs[key]

\* mutant: the month buckets are zeroed with the day buckets
rollover_daily(t) ==
    LET same_day == t.month = today.month /\ t.day = today.day
    IN  [tokens_today |-> IF same_day THEN t.tokens_today ELSE 0,
         tokens_month |-> IF same_day THEN t.tokens_month ELSE 0,
         images_today |-> IF same_day THEN t.images_today ELSE 0,
         images_month |-> IF same_day THEN t.images_month ELSE 0,
         seconds_today |-> IF same_day THEN t.seconds_today ELSE 0,
         seconds_month |-> IF same_day THEN t.seconds_month ELSE 0,
         cost_today   |-> IF same_day THEN t.cost_today ELSE 0,
         cost_month   |-> IF same_day THEN t.cost_month ELSE 0,
         day |-> today.day, month |-> today.month]

\* the buckets after the pending day and month rollover
rollover(t) ==
    LET same_month == t.month = today.month
        same_day   == same_month /\ t.day = today.day
    IN  [tokens_today |-> IF same_day THEN t.tokens_today ELSE 0,
         tokens_month |-> IF same_month THEN t.tokens_month ELSE 0,
         images_today |-> IF same_day THEN t.images_today ELSE 0,
         images_month |-> IF same_month THEN t.images_month ELSE 0,
         seconds_today |-> IF same_day THEN t.seconds_today ELSE 0,
         seconds_month |-> IF same_month THEN t.seconds_month ELSE 0,
         cost_today   |-> IF same_day THEN t.cost_today ELSE 0,
         cost_month   |-> IF same_month THEN t.cost_month ELSE 0,
         day |-> today.day, month |-> today.month]

\* get_current_token_usage(): (tokens_today, tokens_month)
get_current_token_usage(t) == <<rollover(t).tokens_today, rollover(t).tokens_month>>

\* get_current_image_count(): (images_today, images_month)
get_current_image_count(t) == <<rollover(t).images_today, rollover(t).images_month>>

\* get_current_transcription_duration(), in seconds: (today, month)
get_current_transcription_duration(t) ==
    <<rollover(t).seconds_today, rollover(t).seconds_month>>

\* get_current_cost(): (cost_today, cost_month)
get_current_cost(t) == <<rollover(t).cost_today, rollover(t).cost_month>>

\* add_chat_tokens(tokens, tokens_price)
add_chat_tokens(t, tokens, price) ==
    LET r == rollover(t)
    IN  [r EXCEPT !.tokens_today = @ + tokens, !.tokens_month = @ + tokens,
                  !.cost_today = @ + tokens * price,
                  !.cost_month = @ + tokens * price]

\* add_image_request(image_size, image_prices): one image of the size tier, at
\* the price of the tier
add_image_request(t, image_size, image_prices) ==
    LET r == rollover(t)
    IN  [r EXCEPT !.images_today = @ + 1, !.images_month = @ + 1,
                  !.cost_today = @ + image_prices[image_size],
                  !.cost_month = @ + image_prices[image_size]]

\* add_transcription_seconds(seconds, minute_price): the price is per minute
add_transcription_seconds(t, seconds, minute_price) ==
    LET r == rollover(t)
    IN  [r EXCEPT !.seconds_today = @ + seconds, !.seconds_month = @ + seconds,
                  !.cost_today = @ + (seconds * minute_price) \div 60,
                  !.cost_month = @ + (seconds * minute_price) \div 60]

\* d[k] = v of a dict
Put(d, k, v) == [x \in (DOMAIN d) \cup {k} |-> IF x = k THEN v ELSE d[x]]

EmptyDict == [x \in {} |-> 0]

----------------------------------------------------------------------------
(* The budget gate *)

Star == <<"*">>
Dash == <<"-">>

Config(allowed, admin, budgets) ==
    [allowed_user_ids |-> allowed, admin_user_ids |-> admin,
     monthly_user_budgets |-> budgets, monthly_guest_budget |-> 500,
     token_price |-> 1, image_prices |-> <<2, 4>>, transcription_price |-> 6]

\* self.config: ids 1 and 2 enumerated with budgets 500 and 499; id 2 an enumerated
\* administrator without a budget entry; id 2 a guest; id 2 an administrator that
\* is not enumerated; budgets unrestricted; id 1 an enumerated administrator with
\* a budget entry beside id 2 without one; ids 1 and 2 enumerated at the positions
\* 2 and 3 of a budget list of one entry
Configs ==
    { Config(<<"1", ",", "2">>, Dash, <<"5","0","0", ",", "4","9","9">>),
      Config(<<"1", ",", "2">>, <<"2">>, <<"5","0","0">>),
      Config(<<"1">>, Dash, <<"5","0","0">>),
      Config(<<"1">>, <<"2">>, <<"5","0","0">>),
      Config(<<"1", ",", "2">>, Dash, Star),
      Config(<<"1", ",", "2">>, <<"1">>, <<"5","0","0">>),
      Config(<<"9", ",", "1", ",", "2">>, Dash, <<"5","0","0">>) }

\* an inbound event: the acting identity, the kind of chat and, for a group, the
\* ids whose get_member status is owner, administrator or member
Updates ==
    { [user_id |-> id, group |-> FALSE, members |-> {}] : id \in UserIds }
    \cup [user_id : UserIds, group : {TRUE}, members : {{}, {<<"1">>}}]

is_group_chat_of(update) == update.group

\* mutant: every id is taken for a member of the group
is_user_in_group_any(update, user) == TRUE

\* is_user_in_group, lines 525-534
is_user_in_group(update, user) == user \in update.members

\* mutant: no identity is taken for an administrator
is_admin_none(update) == FALSE

\* is_admin, lines 561-576
is_admin(update) ==
    IF config.admin_user_ids = Dash THEN FALSE
    ELSE In(str(update.user_id), split(config.admin_user_ids, ","))

\* mutant: the gate keeps the price of one more token in reserve
within_user_budget_reserving(user_budget, cost) == user_budget > cost + 1

\* the comparison of the guest path applied to an enumerated identity
within_user_budget_inclusive(user_budget, cost) == user_budget >= cost

\* mutant: an identity without a budget entry passes the gate
missing_budget_verdict_permissive == TRUE

\* "return False", line 628
missing_budget_verdict == FALSE

\* "len(user_budgets) <= user_index", lines 595 and 626
past_budget_list(user_budgets, user_index) == Len(user_budgets) <= user_index

\* "user_budget > cost_month", line 632
within_user_budget(user_budget, cost) == user_budget > cost

\* "monthly_guest_budget >= cost_month", line 640
within_guest_budget(guest_budget, cost) == guest_budget >= cost

\* "if user_id not in self.usage: self.usage[user_id] = UsageTracker(...)"
with_tracker(u, key) == IF key \in DOMAIN u THEN u ELSE Put(u, key, UsageTracker(key))

\* is_within_budget, lines 605-645: the verdict, self.usage after the call and the
\* warning logged (line 627 or line 642)
is_within_budget(u, update) ==
    LET user_id == update.user_id
        u1 == with_tracker(u, user_id)
        allowed_user_ids == split(config.allowed_user_ids, ",")
        user_budgets == split(config.monthly_user_budgets, ",")
    IN  IF is_admin(update) THEN [allowed |-> TRUE, usage |-> u1, warning |-> "none"]
        ELSE IF config.monthly_user_budgets = Star THEN [allowed |-> TRUE, usage |-> u1, warning |-> "none"]
        ELSE IF In(str(user_id), allowed_user_ids)
        THEN LET user_index == index(allowed_user_ids, str(user_id))
             IN  IF past_budget_list(user_budgets, user_index)
                 THEN [allowed |-> missing_budget_verdict, usage |-> u1,
                       warning |-> "no_budget"]
                 ELSE [allowed |-> within_user_budget(
                                       float(user_budgets[user_index + 1]),
                                       get_current_cost(u1[user_id])[2]),
                       usage |-> u1, warning |-> "none"]
        ELSE IF is_group_chat_of(update)
                /\ \E k \in 1..Len(allowed_user_ids) :
                      is_user_in_group(update, allowed_user_ids[k])
        THEN LET u2 == with_tracker(u1, GUESTS)
                 ok == within_guest_budget(config.monthly_guest_budget,
                                           get_current_cost(u2[GUESTS])[2])
             IN  [allowed |-> ok, usage |-> u2,
                  warning |-> IF ok THEN "none" ELSE "guest_budget"]
        ELSE [allowed |-> FALSE, usage |-> u1, warning |-> "none"]

\* float('inf')
Inf == [inf |-> TRUE, amount |-> 0]

\* a finite amount of money, in cents
Amount(n) == [inf |-> FALSE, amount |-> n]

\* get_remaining_budget, lines 578-603: the amount returned, self.usage after the
\* call and the warning logged (line 596)
get_remaining_budget(u, update) ==
    LET user_id == update.user_id
        u1 == with_tracker(u, user_id)
        allowed_user_ids == split(config.allowed_user_ids, ",")
        user_budgets == split(config.monthly_user_budgets, ",")
    IN  IF is_admin(update) THEN [remaining |-> Inf, usage |-> u1, warning |-> "none"]
        ELSE IF config.monthly_user_budgets = Star THEN [remaining |-> Inf, usage |-> u1, warning |-> "none"]
        ELSE IF In(str(user_id), allowed_user_ids)
        THEN LET user_index == index(allowed_user_ids, str(user_id))
             IN  IF past_budget_list(user_budgets, user_index)
                 THEN [remaining |-> Amount(0), usage |-> u1, warning |-> "no_budget"]
                 ELSE [remaining |-> Amount(float(user_budgets[user_index + 1])
                                           - get_current_cost(u1[user_id])[2]),
                       usage |-> u1, warning |-> "none"]
        ELSE [remaining |-> Amount(0), usage |-> u1, warning |-> "none"]

NoUpdate == [user_id |-> 1, group |-> FALSE, members |-> {}]

\* the latest call on the ledger, its event, its answer and its date
Last(op, update, allowed, remaining, warning) ==
    [op |-> op, update |-> update, allowed |-> allowed, remaining |-> remaining,
     warning |-> warning, at |-> today]

\* an event reaches the budget gate of prompt, image or transcribe
IsWithinBudget ==
    /\ \E update \in Updates :
         LET r == is_within_budget(usage, update)
         IN  /\ usage' = r.usage
             /\ last' = Last("is_within_budget", update, r.allowed, Amount(0), r.warning)
    /\ UNCHANGED <<config, usage_logs, today, besidesBudget>>

\* stats asks for the remaining budget (line 80)
GetRemainingBudget ==
    /\ \E update \in Updates :
         LET r == get_remaining_budget(usage, update)
         IN  /\ usage' = r.usage
             /\ last' = Last("get_remaining_budget", update, FALSE, r.remaining, r.warning)
    /\ UNCHANGED <<config, usage_logs, today, besidesBudget>>

\* lines 419-425: prompt, past its budget gate (lines 297-301), records the tokens
\* of the chat completion
RecordChat ==
    /\ last.op = "is_within_budget"
    /\ last.allowed
    /\ \E n \in TokenAmounts :
         LET update == last.update
             user_id == update.user_id
             allowed_user_ids == split(config.allowed_user_ids, ",")
             u1 == [usage EXCEPT ![user_id] =
                        add_chat_tokens(@, n, config.token_price)]
             u2 == IF ~In(str(user_id), allowed_user_ids) /\ GUESTS \in DOMAIN usage
                   THEN [u1 EXCEPT ![GUESTS] =
                            add_chat_tokens(@, n, config.token_price)]
                   ELSE u1
         IN  /\ user_id \in DOMAIN usage
             /\ \A k \in DOMAIN u2 : u2[k].tokens_month <= MaxTokens
             /\ usage' = u2
             /\ last' = Last("add_chat_tokens", update, FALSE, Amount(0), "none")
    /\ UNCHANGED <<config, usage_logs, today, besidesBudget>>

\* the number of a date, from 1
Ordinal(date) == (date.month - 1) * DaysPerMonth + date.day

\* the wall clock passes midnight
NextDay ==
    /\ today.day < DaysPerMonth
    /\ Ordinal(today) < MaxDate
    /\ today' = [today EXCEPT !.day = @ + 1]
    /\ UNCHANGED <<config, usage_logs, usage, last, besidesBudget>>

\* the wall clock passes the end of the month
NextMonth ==
    /\ Ordinal([day |-> 1, month |-> today.month + 1]) <= MaxDate
    /\ today' = [day |-> 1, month |-> today.month + 1]
    /\ UNCHANGED <<config, usage_logs, usage, last, besidesBudget>>

LedgerInit ==
    /\ config \in Configs
    /\ \E c \in Costs : usage_logs = [k \in Keys |-> NewTracker(c)]
    /\ usage = EmptyDict
    /\ today = [day |-> 1, month |-> 1]
    /\ last = Last("none", NoUpdate, FALSE, Amount(0), "none")

BudgetNext ==
    \/ IsWithinBudget
    \/ GetRemainingBudget
    \/ RecordChat
    \/ NextDay
    \/ NextMonth

----------------------------------------------------------------------------
(* The turns of image, transcribe and prompt *)

\* bound on the number of turns
MaxTurns == 2

\* the handlers that call a priced operation of the backend
Handlers == {"image", "transcribe", "prompt"}

\* the handlers behind the access-control gate that are modelled
Commands == Handlers \cup {"stats"}

\* the size tiers of an image, positions of image_prices
ImageSizes == {1, 2}

\* audio_track.duration_seconds
Durations == {30, 60}

\* is_allowed, lines 536-559
is_allowed(update) ==
    LET allowed_user_ids == split(config.allowed_user_ids, ",")
    IN  IF config.allowed_user_ids = Star THEN TRUE
        ELSE IF is_admin(update) THEN TRUE
        ELSE IF In(str(update.user_id), allowed_user_ids) THEN TRUE
        ELSE IF is_group_chat_of(update)
                /\ \E k \in 1..Len(allowed_user_ids) :
                      is_user_in_group(update, allowed_user_ids[k])
        THEN TRUE
        ELSE FALSE

\* a call of the turn and how it ended: for a gate its verdict, for a call of
\* the backend whether it returned
Event(op, ok) == [op |-> op, ok |-> ok]

\* no handler is running: pc is the position of the handler, op the call of the
\* backend it is at, reply the message it sent to the user, raised whether a
\* call of the backend raised, before self.usage when the turn began and then
\* when its latest call of the backend was made
NoTurn ==
    [pc |-> "idle", handler |-> "none", update |-> NoUpdate, trace |-> <<>>,
     op |-> "none", reply |-> "none", raised |-> FALSE, before |-> EmptyDict,
     turns |-> 0]

\* mutant: the handler goes on after a gate that denied
next_after_gate_ignored(passed, onward) == onward

\* mutant: the handler goes on after is_allowed denied
next_after_gate_access_ignored(passed, onward) ==
    IF onward \in {"is_within_budget", "stats"} \/ passed THEN onward ELSE "done"

\* "if not await self.gate(update): ...; return"
next_after_gate(passed, onward) == IF passed THEN onward ELSE "done"

\* mutant: a call of the backend that raised is recorded like one that returned
OnRaise_record == "record"

\* an exception of the try block goes to its except clause
OnRaise == "except"

\* the statement after a call of the backend that returned
after_call(handler) == IF handler = "transcribe" THEN "record" ELSE "send"

\* the statement after the reply was sent
after_send(handler) == IF handler = "transcribe" THEN "done" ELSE "record"

\* the trackers after an add on the tracker of the user and, for a user that is
\* not enumerated, on the tracker of the guests if there is one; after[k] is the
\* tracker of k after the add
recorded(u, user_id, after) ==
    LET allowed_user_ids == split(config.allowed_user_ids, ",")
        u1 == [u EXCEPT ![user_id] = after[user_id]]
    IN  IF ~In(str(user_id), allowed_user_ids) /\ GUESTS \in DOMAIN u
        THEN [u1 EXCEPT ![GUESTS] = after[GUESTS]]
        ELSE u1

\* the dispatcher calls a handler with an event
Receive ==
    /\ turn.pc = "idle"
    /\ turn.turns < MaxTurns
    /\ \E handler \in Commands, update \in Updates :
         turn' = [NoTurn EXCEPT !.pc = "is_allowed", !.handler = handler,
                                !.update = update, !.before = usage,
                                !.turns = turn.turns + 1]
    /\ UNCHANGED <<streamVars, budgetVars, chunked, restVars>>

\* lines 62-65, 131-134, 176-179, 297-300
IsAllowed ==
    /\ turn.pc = "is_allowed"
    /\ LET ok == is_allowed(turn.update)
           onward == IF turn.handler = "stats" THEN "stats" ELSE "is_within_budget"
       IN  turn' = [turn EXCEPT !.pc = next_after_gate(ok, onward),
                                !.trace = Append(@, Event("is_allowed", ok)),
                                !.reply = IF ok THEN @ ELSE "disallowed"]
    /\ UNCHANGED <<streamVars, budgetVars, chunked, restVars>>

\* lines 136-139, 181-184, 302-305
WithinBudget ==
    /\ turn.pc = "is_within_budget"
    /\ LET r == is_within_budget(usage, turn.update)
       IN  /\ usage' = r.usage
           /\ turn' = [turn EXCEPT !.pc = next_after_gate(r.allowed, "prepare"),
                                   !.trace = Append(@, Event("is_within_budget", r.allowed)),
                                   !.reply = IF r.allowed THEN @ ELSE "budget_reached"]
    /\ UNCHANGED <<streamVars, config, usage_logs, today, last, chunked, restVars>>

\* stats, lines 67-109: the tracker of the user is created if need be, its
\* totals and the remaining budget are read and sent
Stats ==
    /\ turn.pc = "stats"
    /\ usage' = get_remaining_budget(with_tracker(usage, turn.update.user_id),
                                     turn.update).usage
    /\ turn' = [turn EXCEPT !.pc = "done", !.reply = "stats"]
    /\ UNCHANGED <<streamVars, config, usage_logs, today, last, chunked, restVars>>

\* image, lines 141-149: an empty query is answered without a call of the backend
ImageQuery ==
    /\ turn.pc = "prepare"
    /\ turn.handler = "image"
    /\ \E empty \in BOOLEAN :
         turn' = IF empty
                 THEN [turn EXCEPT !.pc = "done", !.reply = "provide_prompt"]
                 ELSE [turn EXCEPT !.pc = "call", !.op = "generate_image"]
    /\ UNCHANGED <<streamVars, budgetVars, chunked, restVars>>

\* transcribe, lines 186-227: a transcription of a group may be ignored, the
\* download or the decoding of the file may fail
AudioFile ==
    /\ turn.pc = "prepare"
    /\ turn.handler = "transcribe"
    /\ \E ignore_group_transcriptions \in BOOLEAN,
          file \in {"decoded", "download_failed", "unsupported"} :
         IF is_group_chat_of(turn.update) /\ ignore_group_transcriptions
         THEN turn' = [turn EXCEPT !.pc = "done"] /\ usage' = usage
         ELSE IF file = "download_failed"
         THEN turn' = [turn EXCEPT !.pc = "done", !.reply = "failed_download"]
              /\ usage' = usage
         ELSE IF file = "unsupported"
         THEN turn' = [turn EXCEPT !.pc = "done", !.reply = "unsupported_file"]
              /\ usage' = usage
         ELSE /\ turn' = [turn EXCEPT !.pc = "call", !.op = "transcribe"]
              /\ usage' = with_tracker(usage, turn.update.user_id)
    /\ UNCHANGED <<streamVars, config, usage_logs, today, last, chunked, restVars>>

\* prompt, lines 307-323: in a group a message without the trigger keyword that
\* is no reply to the bot is ignored
Trigger ==
    /\ turn.pc = "prepare"
    /\ turn.handler = "prompt"
    /\ \E addressed \in BOOLEAN :
         turn' = IF is_group_chat_of(turn.update) /\ ~addressed
                 THEN [turn EXCEPT !.pc = "done"]
                 ELSE [turn EXCEPT !.pc = "call", !.op = "get_chat_response"]
    /\ UNCHANGED <<streamVars, budgetVars, chunked, restVars>>

\* a call of the backend, lines 151, 233, 259, 329-403 and 406: it returns or
\* it raises
Invoke ==
    /\ turn.pc = "call"
    /\ \E ok \in BOOLEAN :
         turn' = [turn EXCEPT !.pc = IF ok THEN after_call(turn.handler) ELSE OnRaise,
                              !.trace = Append(@, Event(turn.op, ok)),
                              !.raised = ~ok,
                              !.before = usage]
    /\ UNCHANGED <<streamVars, budgetVars, chunked, restVars>>

\* the reply is sent, lines 152-156, 246-256, 267-277 and 409-417: the
\* transport accepts it or raises
Send ==
    /\ turn.pc = "send"
    /\ \E ok \in BOOLEAN :
         turn' = [turn EXCEPT !.pc = IF ok THEN after_send(turn.handler) ELSE "except",
                              !.reply = IF ok THEN "answer" ELSE @]
    /\ UNCHANGED <<streamVars, budgetVars, chunked, restVars>>

\* image, lines 158-162
AddImageRequest ==
    /\ turn.pc = "record"
    /\ turn.op = "generate_image"
    /\ \E image_size \in ImageSizes :
         LET after == [k \in DOMAIN usage |->
                          add_image_request(usage[k], image_size, config.image_prices)]
         IN  usage' = recorded(usage, turn.update.user_id, after)
    /\ turn' = [turn EXCEPT !.pc = "done"]
    /\ UNCHANGED <<streamVars, config, usage_logs, today, last, chunked, restVars>>

\* transcribe, lines 235-244 and 257: the transcript is the reply, or the query
\* of a chat completion
AddTranscriptionSeconds ==
    /\ turn.pc = "record"
    /\ turn.op = "transcribe"
    /\ \E seconds \in Durations :
         LET after == [k \in DOMAIN usage |->
                          add_transcription_seconds(usage[k], seconds,
                                                    config.transcription_price)]
         IN  usage' = recorded(usage, turn.update.user_id, after)
    /\ \E voice_reply_transcript \in BOOLEAN :
         turn' = IF voice_reply_transcript
                 THEN [turn EXCEPT !.pc = "send"]
                 ELSE [turn EXCEPT !.pc = "call", !.op = "get_chat_response"]
    /\ UNCHANGED <<streamVars, config, usage_logs, today, last, chunked, restVars>>

\* transcribe, lines 261-265, and prompt, lines 419-427
AddChatTokens ==
    /\ turn.pc = "record"
    /\ turn.op = "get_chat_response"
    /\ \E tokens \in TokenAmounts :
         LET after == [k \in DOMAIN usage |->
                          add_chat_tokens(usage[k], tokens, config.token_price)]
         IN  usage' = recorded(usage, turn.update.user_id, after)
    /\ turn' = [turn EXCEPT !.pc = IF turn.handler = "transcribe" THEN "send" ELSE "done"]
    /\ UNCHANGED <<streamVars, config, usage_logs, today, last, chunked, restVars>>

\* the except clause, lines 164-170, 279-285 and 429-435: the failure is sent to
\* the user
Except ==
    /\ turn.pc = "except"
    /\ turn' = [turn EXCEPT !.pc = "done",
                            !.reply = IF turn.handler = "image" THEN "failed_image"
                                      ELSE IF turn.handler = "transcribe"
                                      THEN "failed_transcribe"
                                      ELSE "failed_response"]
    /\ UNCHANGED <<streamVars, budgetVars, chunked, restVars>>

\* the handler returns
Return ==
    /\ turn.pc = "done"
    /\ turn' = [NoTurn EXCEPT !.turns = turn.turns]
    /\ UNCHANGED <<streamVars, budgetVars, chunked, restVars>>

\* self.config of the turns: ids 1 and 2 enumerated with budgets 500 and 499;
\* id 2 a guest; id 2 an administrator that is not enumerated; everybody allowed
\* and budgets unrestricted
TurnConfigs ==
    { Config(<<"1", ",", "2">>, Dash, <<"5","0","0", ",", "4","9","9">>),
      Config(<<"1">>, Dash, <<"5","0","0">>),
      Config(<<"1">>, <<"2">>, <<"5","0","0">>),
      Config(Star, Dash, Star) }

TurnNext ==
    \/ Receive
    \/ IsAllowed
    \/ WithinBudget
    \/ Stats
    \/ ImageQuery
    \/ AudioFile
    \/ Trigger
    \/ Invoke
    \/ Send
    \/ AddImageRequest
    \/ AddTranscriptionSeconds
    \/ AddChatTokens
    \/ Except
    \/ Return

----------------------------------------------------------------------------
(* Concurrent turns of prompt: run builds the application with *)
(* concurrent_updates(True), so handlers interleave at their awaits *)

\* bound on the number of concurrent turns
MaxTasks == 2

\* a turn that has not begun: pc is its position, tokens the total_tokens of its
\* completion, keys the trackers it recorded to, at the date of the recording,
\* seen the month tokens of the trackers when it passed the budget gate
NewTask ==
    [pc |-> "start", update |-> NoUpdate, tokens |-> 0, keys |-> {},
     at |-> [day |-> 0, month |-> 0], seen |-> <<>>]

\* mutant: the add works on the totals read before the await of the completion
tracker_of_stale(u, key, seen) ==
    IF key \in DOMAIN seen THEN [u[key] EXCEPT !.tokens_month = seen[key]] ELSE u[key]

\* lines 421 and 425: self.usage[user_id] and self.usage["guests"] are looked up
\* in the statement that adds, with no await between the lookup and the add
tracker_of(u, key, seen) == u[key]

\* the identities of the concurrent turns: a third one, so that a guest and an
\* administrator that is not enumerated act under one configuration
TaskUserIds == UserIds \cup {3}

TaskUpdates ==
    { [user_id |-> id, group |-> FALSE, members |-> {}] : id \in TaskUserIds }
    \cup [user_id : TaskUserIds, group : {TRUE}, members : {{}, {<<"1">>}}]

\* lines 297-300 and 609-612: up to the first await of is_within_budget the turn
\* has passed is_allowed and created the tracker of its user
TaskEnter(k) ==
    /\ tasks[k].pc = "start"
    /\ \E update \in TaskUpdates :
         IF is_allowed(update)
         THEN /\ usage' = with_tracker(usage, update.user_id)
              /\ tasks' = [tasks EXCEPT ![k].pc = "is_within_budget",
                                        ![k].update = update]
         ELSE /\ usage' = usage
              /\ tasks' = [tasks EXCEPT ![k].pc = "done", ![k].update = update]
    /\ UNCHANGED <<streamVars, config, usage_logs, today, last, chunked, turn, cut,
                   cancelled>>

\* lines 302-305 and 614-645: the verdict of is_within_budget
TaskGate(k) ==
    /\ tasks[k].pc = "is_within_budget"
    /\ LET r == is_within_budget(usage, tasks[k].update)
       IN  /\ usage' = r.usage
           /\ tasks' = [tasks EXCEPT
                           ![k].pc = IF r.allowed THEN "completion" ELSE "done",
                           ![k].seen = [key \in DOMAIN r.usage |->
                                           r.usage[key].tokens_month]]
    /\ UNCHANGED <<streamVars, config, usage_logs, today, last, chunked, turn, cut,
                   cancelled>>

\* lines 325-417: the completion is awaited and delivered; it ends with
\* total_tokens or raises
TaskComplete(k) ==
    /\ tasks[k].pc = "completion"
    /\ \/ \E n \in TokenAmounts :
            tasks' = [tasks EXCEPT ![k].pc = "record", ![k].tokens = n]
       \/ tasks' = [tasks EXCEPT ![k].pc = "done"]
    /\ UNCHANGED <<streamVars, budgetVars, chunked, turn, cut, cancelled>>

\* lines 419-427: no await between the first and the last statement
TaskRecord(k) ==
    /\ tasks[k].pc = "record"
    /\ LET user_id == tasks[k].update.user_id
           allowed_user_ids == split(config.allowed_user_ids, ",")
           after == [key \in DOMAIN usage |->
                        add_chat_tokens(tracker_of(usage, key, tasks[k].seen),
                                        tasks[k].tokens, config.token_price)]
       IN  /\ usage' = recorded(usage, user_id, after)
           /\ tasks' = [tasks EXCEPT
                           ![k].pc = "done",
                           ![k].keys =
                               {user_id} \cup
                               (IF In(str(user_id), allowed_user_ids) THEN {}
                                ELSE {GUESTS} \cap DOMAIN usage),
                           ![k].at = today]
    /\ UNCHANGED <<streamVars, config, usage_logs, today, last, chunked, turn, cut,
                   cancelled>>

\* self.config of the concurrent turns: id 1 enumerated and ids 2 and 3 guests;
\* id 2 an administrator that is not enumerated and id 3 a guest
TaskConfigs ==
    { Config(<<"1">>, Dash, <<"5","0","0">>),
      Config(<<"1">>, <<"2">>, <<"5","0","0">>) }

ConcurrentNext ==
    \/ \E k \in 1..MaxTasks : TaskEnter(k)
    \/ \E k \in 1..MaxTasks : TaskGate(k)
    \/ \E k \in 1..MaxTasks : TaskComplete(k)
    \/ \E k \in 1..MaxTasks : TaskRecord(k)
    \/ NextDay

----------------------------------------------------------------------------
(* Specifications *)

\* no turn is streaming
StreamIdle ==
    /\ StreamInit
    /\ chunk_size = SmallCapacity
    /\ is_group_chat = FALSE

\* the ledger is not touched
BudgetIdle ==
    /\ LedgerInit
    /\ config = Config(<<"1", ",", "2">>, Dash, Star)
    /\ usage_logs = [k \in Keys |-> NewTracker(0)]

\* no cutoff evaluated, no concurrent turns, no cancellation
RestIdle == cut = NoCut /\ tasks = NoTasks /\ cancelled = FALSE

\* split_into_chunks has not been called
SplitIdle == chunked = NoSplit

\* no handler is running
TurnIdle == turn = NoTurn

\* one streamed turn of prompt, from the first frame to the recording
Init == StreamInit /\ BudgetIdle /\ SplitIdle /\ TurnIdle /\ RestIdle

Next == StreamNext

Spec == Init /\ [][Next]_vars

\* the streaming loop of a turn that is scheduled: the event loop resumes a
\* coroutine whose await has completed, and the stream yields its next frame,
\* ends or raises
LiveSpec == Init /\ [][Next]_vars /\ WF_vars(Next)

\* the budget gate and the ledger
BudgetInit == LedgerInit /\ StreamIdle /\ SplitIdle /\ TurnIdle /\ RestIdle

BudgetSpec == BudgetInit /\ [][BudgetNext]_vars

\* turns of image, transcribe and prompt, one after the other
TurnInit ==
    /\ config \in TurnConfigs
    /\ \E c \in Costs : usage_logs = [k \in Keys |-> NewTracker(c)]
    /\ usage = EmptyDict
    /\ today = [day |-> 1, month |-> 1]
    /\ last = Last("none", NoUpdate, FALSE, Amount(0), "none")
    /\ turn = NoTurn
    /\ StreamIdle
    /\ SplitIdle
    /\ RestIdle

TurnSpec == TurnInit /\ [][TurnNext]_vars

\* one streamed turn that may be cancelled
CancelInit == StreamInit /\ BudgetIdle /\ SplitIdle /\ TurnIdle /\ RestIdle

CancelSpec == CancelInit /\ [][CancelNext]_vars

\* concurrent turns of prompt on one ledger
ConcurrentInit ==
    /\ config \in TaskConfigs
    /\ \E c \in Costs : usage_logs = [k \in TaskUserIds \cup {GUESTS} |-> NewTracker(c)]
    /\ usage = EmptyDict
    /\ today = [day |-> 1, month |-> 1]
    /\ last = Last("none", NoUpdate, FALSE, Amount(0), "none")
    /\ tasks = [k \in 1..MaxTasks |-> NewTask]
    /\ cut = NoCut
    /\ cancelled = FALSE
    /\ StreamIdle
    /\ SplitIdle
    /\ TurnIdle

ConcurrentSpec == ConcurrentInit /\ [][ConcurrentNext]_vars

\* evaluations of the base cutoff
CutoffInit ==
    /\ cut = NoCut
    /\ tasks = NoTasks
    /\ cancelled = FALSE
    /\ StreamIdle
    /\ BudgetIdle
    /\ SplitIdle
    /\ TurnIdle

CutoffNext == BaseCutoff

CutoffSpec == CutoffInit /\ [][CutoffNext]_vars

\* calls of split_into_chunks
ChunkInit == SplitIdle /\ StreamIdle /\ BudgetIdle /\ TurnIdle /\ RestIdle

ChunkNext == SplitIntoChunks

ChunkSpec == ChunkInit /\ [][ChunkNext]_vars

----------------------------------------------------------------------------
(* Claims about the streaming loop *)

\* the iteration for the frame in hand has run
Processed == nframes > 0 /\ did.frame = nframes /\ pc # "body"

\* the concatenation of a sequence of texts
RECURSIVE Concat(_)
Concat(ss) == IF ss = <<>> THEN <<>> ELSE Head(ss) \o Concat(Tail(ss))

\* the texts of the messages the turn left in the chat, in order
RECURSIVE Left(_, _)
Left(msgs, k) ==
    IF k > Len(msgs) THEN <<>>
    ELSE (IF k \in deleted THEN <<>> ELSE <<msgs[k].text>>) \o Left(msgs, k + 1)

\* C1: final-flush guarantee: when the streaming loop has ended after a final
\* frame, the content the transport last accepted for the last open message is
\* the final accumulated text (its last chunk when it exceeds the capacity),
\* whatever the transport answered before.
C1_FinalFlush ==
    (pc = "done" /\ sent_message # None)
        => chat[sent_message].text = content_of(frame)

\* C2: with every transport call succeeding, the in-order concatenation of the
\* messages the turn left in the chat equals the final accumulated text.
C2_NoDropNoDuplicate ==
    (pc = "done" /\ all_ok) => Concat(Left(chat, 1)) = frame.content


\* the last iteration issued the cadence edit of line 383
EditIssued == did.branch = "edit" /\ did.calls # <<>>

\* the cadence edit of the last iteration was answered RetryAfter or TimedOut
TransientPending ==
    EditIssued /\ did.calls[1].answer \in {"retry_after", "timed_out"}

\* C3 (as claimed): after an edit answered RateLimited or TimedOut the engine
\* stays on that frame until the content has been retried: it neither takes a
\* later frame nor ends the turn while the failed edit is the last thing it did.
C3_RetriesSameFrame ==
    TransientPending => (nframes = did.frame /\ pc # "done")

\* C3 (what the loop does instead): after an edit answered RateLimited or TimedOut the engine
\* suspends and then awaits the next frame; the failed content is not retried:
\* prev already holds it, the frame counter i is unchanged, and the frame the
\* next iteration works on is the one after the failed frame.
C3_AdvancesAfterTransient ==
    TransientPending =>
        /\ prev = did.calls[1].text
        /\ pc \in {"sleep", "fetch", "body", "done", "except", "failed"}
        /\ (pc = "sleep") => sleep_kind = did.calls[1].answer
        /\ (pc = "body") => nframes = did.frame + 1
        /\ (pc # "body") => nframes = did.frame

C3_Witness ==
    TransientPending /\ pc = "body" /\ ~IsBlank /\ ~IsRollover /\ EditDue

\* C4: a RateLimited(retry_after = r) answer to the cadence edit causes exactly
\* one suspension, of duration exactly r, and adds the fixed increment (5) to the
\* backoff penalty, so that the live cutoff is strictly larger for every length.
C4_RateLimitedBackoff ==
    (EditIssued /\ did.calls[1].answer = "retry_after") =>
        /\ nsleeps = did.nsleeps + 1
        /\ sleep_for = Seconds(did.calls[1].retry_after)
        /\ (pc = "sleep") => sleep_kind = "retry_after"
        /\ backoff = did.backoff + 5
        /\ \A n \in 0..Len(text), g \in BOOLEAN :
             base_cutoff(n, g) + backoff > base_cutoff(n, g) + did.backoff

C4_Witness ==
    /\ EditIssued
    /\ did.calls[1].answer = "retry_after"
    /\ did.calls[1].retry_after = 3
    /\ pc = "sleep"
    /\ sleep_for = 300
    /\ did.backoff = 5
    /\ backoff = 10

\* C5: whichever branch processes the final frame (first send, rollover, edit
\* success or failure), the ledger of the acting identity receives exactly one
\* add_chat_tokens(n) with the token count n of the final frame.
C5_TokensRecorded ==
    (pc = "done" /\ did.frame = nframes /\ did.branch \in {"first", "rollover", "edit"})
        => adds = <<int(frame.tokens)>>

\* C6: a stream whose text first fits in one message and later crosses the
\* capacity leaves at least two messages, the last one holding the part of the
\* final text beyond the last capacity boundary.
C6_BoundaryRollover ==
    (/\ pc = "done"
     /\ first_len # <<>>
     /\ first_len[1] > 0
     /\ first_len[1] <= chunk_size
     /\ Len(frame.content) > chunk_size)
        => /\ Len(chat) >= 2
           /\ chat[Len(chat)].text = last_chunk(chunks)

\* C6 restricted to a transport that never fails
C6_BoundaryRolloverAllOk ==
    all_ok => C6_BoundaryRollover

\* C7: at a size-boundary rollover with the transport succeeding, the open
\* message is closed with the second-to-last chunk (exactly capacity characters)
\* and a new message is opened whose initial content is the last chunk.
C7_RolloverContents ==
    (/\ Processed
     /\ did.branch = "rollover"
     /\ Len(did.calls) = 2
     /\ CallsOk(did.calls))
        => LET cs     == split_into_chunks(frame.content, chunk_size)
               closed == did.calls[1].msg
           IN  /\ closed \in 1..did.nmsgs
               /\ chat[closed].text = cs[Len(cs) - 1]
               /\ Len(chat[closed].text) = chunk_size
               /\ Len(chat) = did.nmsgs + 1
               /\ sent_message = Len(chat)
               /\ chat[sent_message].text = cs[Len(cs)]

\* scenario A: capacity 10, frames "hello", "hello world", "hello world!! final"
C7_Witness ==
    /\ chunk_size = 10
    /\ pc = "done"
    /\ all_ok
    /\ first_len = <<5>>
    /\ nframes = 3
    /\ Len(frame.content) = 19
    /\ Left(chat, 1) = << <<"h","e","l","l","o"," ","w","o","r","l">>,
                          <<"d","!","!"," ","f","i","n","a","l">> >>

\* C8: the final frame always forces a flush: once a non-blank final frame has
\* been processed, the iteration has attempted a send or an edit carrying that
\* frame's content for the current message.
C8_FinalFrameFlushed ==
    (Processed /\ IsFinal(frame) /\ ~IsBlank)
        => \E k \in 1..Len(did.calls) :
              /\ did.calls[k].op \in {"send", "edit"}
              /\ did.calls[k].text = content

\* C9: RetryAfter and TimedOut raised by a send or an edit of the streaming loop
\* never reach the outer handler of prompt: the turn is never aborted by them and
\* 'Failed to get response' is sent for a backend failure only.
C9_TransientAbsorbed ==
    /\ raised \in {"none", "upstream"}
    /\ (pc \in {"except", "failed"} \/ notice) => raised = "upstream"

C9_Witness ==
    /\ pc = "done"
    /\ TransientPending
    /\ ~all_ok
    /\ raised = "none"
    /\ ~notice

\* C24: the last-rendered text is recorded on success only: whenever the turn
\* waits for the next frame, prev is the content the transport most recently
\* accepted for the open message (after the first send, after a rollover and
\* after a failed edit alike).
C24_PrevIsLastAccepted ==
    (pc = "fetch" /\ sent_message # None) => prev = chat[sent_message].text

\* C24 (second part): an edit that fails leaves prev unchanged
C24_FailedEditKeepsPrev ==
    [][(pc = "body" /\ did'.branch = "edit" /\ ~CallsOk(did'.calls)) => prev' = prev]_vars

\* what the loop does: prev is assigned before the edit is attempted, and by
\* nothing else; once an edit was due, prev is the content of that frame
\* whatever the transport answered
C24_PrevIsLastAttempted ==
    /\ (did.branch = "edit" /\ pc # "body") => prev = did.calls[1].text
    /\ (i = 0) => prev = <<>>

\* the frame in hand is a later frame, not final, that fits in one message
LaterFrameInOneMessage ==
    /\ pc = "body"
    /\ ~IsBlank
    /\ i # 0
    /\ ~IsFinal(frame)
    /\ Len(frame.content) <= chunk_size

C25_WitnessEdit ==
    /\ did.branch = "edit"
    /\ did.frame = nframes
    /\ ~IsFinal(frame)
    /\ Len(frame.content) <= chunk_size
    /\ Len(frame.content) - Len(did.calls[1].text) = 0
    /\ Len(frame.content) > 15 + did.backoff

\* the step is a rollover whose closing edit the transport refused
ClosingEditFails ==
    /\ pc = "body"
    /\ did'.branch = "rollover"
    /\ did'.calls # <<>>
    /\ did'.calls[1].op = "edit"
    /\ did'.calls[1].answer # "none"

\* C26: rollover is best effort and consumes its frame: when the closing edit of
\* the open message fails, the failure is swallowed, the message with the last
\* chunk is still sent (and is the open message once the transport accepts it),
\* no backoff penalty is added, no cadence edit is made for the frame and no
\* suspension follows; the loop awaits the next frame.
C26_RolloverBestEffort ==
    [][ClosingEditFails =>
         LET cs == split_into_chunks(frame.content, chunk_size)
         IN  /\ pc' = "fetch"
             /\ raised' = raised
             /\ Len(did'.calls) = 2
             /\ did'.calls[2].op = "send"
             /\ did'.calls[2].text = cs[Len(cs)]
             /\ (did'.calls[2].answer = "none") =>
                    /\ chat' = Append(chat, Message(cs[Len(cs)], FALSE))
                    /\ sent_message' = Len(chat')
             /\ (did'.calls[2].answer # "none") =>
                    /\ chat' = chat
                    /\ sent_message' = sent_message
             /\ backoff' = backoff
             /\ prev' = prev
             /\ i' = i
             /\ nsleeps' = nsleeps]_vars

\* scenario A with the closing edit refused: the second message is opened with
\* "d", the first one keeps "hello"
C26_Witness ==
    /\ chunk_size = 10
    /\ did.branch = "rollover"
    /\ did.frame = nframes
    /\ pc = "fetch"
    /\ Len(did.calls) = 2
    /\ did.calls[1].answer = "error"
    /\ did.calls[2].answer = "none"
    /\ Len(chat) = 2
    /\ sent_message = 2
    /\ chat[1].text = <<"h","e","l","l","o">>
    /\ chat[2].text = <<"d">>
    /\ backoff = 0

\* the first send of the last iteration was refused
FirstSendFailed ==
    /\ did.branch = "first"
    /\ did.calls # <<>>
    /\ did.calls[Len(did.calls)].op = "send"
    /\ did.calls[Len(did.calls)].answer # "none"

\* C27: a failed first send does not abort the turn: the frame is skipped with
\* no message handle and with the frame counter and the backoff unchanged, and
\* the next non-blank frame that fits in one message is treated as the first
\* frame again: it is sent as a new message replying to the triggering event.
C27_FirstSendFailureSkipsFrame ==
    [][/\ (pc = "body" /\ FirstSendFailed') =>
            /\ pc' = "fetch"
            /\ raised' = raised
            /\ sent_message' = sent_message
            /\ chat' = chat
            /\ i' = i
            /\ backoff' = backoff
            /\ nsleeps' = nsleeps
       /\ (/\ pc = "body"
           /\ FirstSendFailed
           /\ ~IsBlank
           /\ Len(frame.content) <= chunk_size) =>
            /\ sent_message = None
            /\ i = 0
            /\ did'.branch = "first"
            /\ did'.calls = << Call("send", None, frame.content,
                                     did'.calls[1].answer, did'.calls[1].retry_after) >>
            /\ (did'.calls[1].answer = "none") =>
                   /\ chat' = Append(chat, Message(frame.content, TRUE))
                   /\ sent_message' = Len(chat')]_vars

\* the first send of "hello" was refused and the next frame was sent as a new
\* message replying to the event
C27_Witness ==
    /\ did.branch = "first"
    /\ did.frame = 2
    /\ nframes = 2
    /\ first_len = <<5>>
    /\ pc = "fetch"
    /\ CallsOk(did.calls)
    /\ i = 1
    /\ Len(chat) = 1
    /\ sent_message = 1
    /\ chat[1] = Message(frame.content, TRUE)
    /\ Len(frame.content) > 5
    /\ ~all_ok

C28_WitnessFailed ==
    /\ pc = "fetch"
    /\ did.branch = "edit"
    /\ did.calls[1].answer = "error"
    /\ backoff = did.backoff + 5
    /\ nsleeps = did.nsleeps
    /\ chat[sent_message].text # did.calls[1].text

\* the loop has reached its end: Completed or Failed
Ended == pc \in {"done", "failed"}

\* each frame is processed once: at most one suspension and one increase of
\* the backoff per frame
BoundedWork ==
    /\ nsleeps <= nframes
    /\ nframes <= MaxFrames
    /\ backoff <= BackoffIncrement * nframes
    /\ did.frame <= nframes

\* C31: every streaming turn terminates: for every frame sequence and every
\* sequence of transport outcomes, the loop reaches its end (Completed or
\* Failed), and up to there it has processed each frame at most once, so the
\* frames bound its transport calls and suspensions.
C31_Terminates == []BoundedWork /\ <>Ended

\* the turn completed although every edit was answered RetryAfter or TimedOut
C31_Witness ==
    /\ pc = "done"
    /\ nframes = MaxFrames
    /\ backoff = BackoffIncrement * (nframes - 1)
    /\ nsleeps = nframes - 1
    /\ did.branch = "edit"
    /\ Len(did.calls) = 1
    /\ did.calls[1].answer \in {"retry_after", "timed_out"}

\* the last step was a rollover whose closing edit the transport applied
ClosedByRollover ==
    /\ did.branch = "rollover"
    /\ did.calls # <<>>
    /\ did.calls[1].op = "edit"
    /\ did.calls[1].answer = "none"

\* C32: once a message has been closed by a rollover, the turn never edits it
\* again: the next edit of the turn targets another message than the one the
\* rollover closed, also when the send that opens the new message failed.
C32_ClosedNotEdited ==
    [][ (ClosedByRollover /\ did' # did /\ did'.branch = "edit" /\ did'.calls # <<>>)
        => did'.calls[1].msg # did.calls[1].msg ]_vars

\* after a rollover whose opening send succeeded, the next edit targets the
\* message that send opened
C32_EditsOpenedMessage ==
    [][ (ClosedByRollover /\ CallsOk(did.calls) /\ Len(did.calls) = 2
         /\ did' # did /\ did'.branch = "edit" /\ did'.calls # <<>>)
        => /\ did'.calls[1].msg # did.calls[1].msg
           /\ did'.calls[1].msg = Len(chat) ]_vars

\* a closed message holds text of the next chunk
C32_ClosedOverwritten ==
    /\ did.branch = "edit"
    /\ CallsOk(did.calls)
    /\ did.calls # <<>>
    /\ chunk > 0
    /\ Len(chat) = 1

----------------------------------------------------------------------------
(* Claims about the budget gate *)

\* is_within_budget has just answered for last.update
Gated == last.op = "is_within_budget" /\ last.at = today

\* the identity of last.update is one of config['allowed_user_ids']
Enumerated == In(str(last.update.user_id), split(config.allowed_user_ids, ","))

\* the position of the identity in the enumerated list, from 1
Position == index(split(config.allowed_user_ids, ","), str(last.update.user_id)) + 1

\* the budget list has an entry at the identity's position
HasBudget == Position <= Len(split(config.monthly_user_budgets, ","))

\* the budget B of the identity, in cents
Budget == float(split(config.monthly_user_budgets, ",")[Position])

\* the month cost of the identity's ledger entry, in cents
MonthCost == get_current_cost(usage[last.update.user_id])[2]

\* the case of C10: enumerated, not an administrator, budgets restricted, B configured
EnumeratedWithBudget ==
    /\ Gated
    /\ ~is_admin(last.update)
    /\ config.monthly_user_budgets # Star
    /\ Enumerated
    /\ HasBudget

\* C10: an enumerated identity that is not an administrator and has a configured
\* budget B, budgets not being unrestricted, is allowed by is_within_budget exactly
\* when B is greater than its month cost; a month cost equal to B is denied.
C10_EnumeratedStrictBudget ==
    EnumeratedWithBudget =>
        /\ last.allowed <=> Budget > MonthCost
        /\ (MonthCost = Budget) => ~last.allowed

\* the boundary: month cost 500 against budget 500, denied
C10_Witness ==
    /\ EnumeratedWithBudget
    /\ Budget = 500
    /\ MonthCost = 500
    /\ ~last.allowed

\* an enumerated identity is a member of the group the event comes from
EnumeratedMemberPresent ==
    \E k \in 1..Len(split(config.allowed_user_ids, ",")) :
        split(config.allowed_user_ids, ",")[k] \in last.update.members

\* the case of C11: not an administrator, budgets restricted, not enumerated, in a
\* group where an enumerated member is present
GuestCase ==
    /\ Gated
    /\ ~is_admin(last.update)
    /\ config.monthly_user_budgets # Star
    /\ ~Enumerated
    /\ last.update.group
    /\ EnumeratedMemberPresent

\* the month cost of the guest pool, in cents
GuestCost == get_current_cost(usage[GUESTS])[2]

\* C11: an unenumerated identity in a group with an enumerated member present is
\* held to the guest budget with the strict test of an enumerated identity: the
\* guest ledger entry exists after the evaluation, and the identity is denied
\* whenever the guest pool's month cost is at or above the guest monthly budget.
C11_GuestStrictBudget ==
    GuestCase =>
        /\ GUESTS \in DOMAIN usage
        /\ (GuestCost >= config.monthly_guest_budget) => ~last.allowed

\* C11 (what the gate does): the guest test is inclusive; the identity is allowed
\* exactly when the guest monthly budget is at least the guest pool's month cost,
\* and the guest ledger entry exists after the evaluation.
C11_GuestInclusiveBudget ==
    GuestCase =>
        /\ GUESTS \in DOMAIN usage
        /\ last.allowed <=> config.monthly_guest_budget >= GuestCost

\* the boundary: guest month cost 500 against guest budget 500, allowed
C11_Witness ==
    /\ GuestCase
    /\ GuestCost = 500
    /\ config.monthly_guest_budget = 500
    /\ last.allowed

\* get_remaining_budget has just answered for last.update
Reported == last.op = "get_remaining_budget" /\ last.at = today

\* the identity of last.update is one of config['admin_user_ids']
Administrator == In(str(last.update.user_id), split(config.admin_user_ids, ","))

\* C12: an administrator is always allowed with infinite remaining budget:
\* is_within_budget returns true and get_remaining_budget returns infinity for it,
\* whether it is enumerated or not, with or without a budget entry, and whatever
\* its month cost.
C12_AdminUnlimited ==
    Administrator =>
        /\ (last.op = "is_within_budget") => last.allowed
        /\ (last.op = "get_remaining_budget") => last.remaining = Inf

\* an enumerated administrator whose month cost is above its budget entry
C12_Witness ==
    /\ Reported
    /\ Administrator
    /\ Enumerated
    /\ HasBudget
    /\ MonthCost > Budget
    /\ last.remaining = Inf

\* an administrator without a budget entry passes the gate
C12_WitnessMissingEntry ==
    /\ Gated
    /\ Administrator
    /\ Enumerated
    /\ ~HasBudget
    /\ last.allowed

\* the case of C13: not an administrator, budgets restricted, not enumerated, in a
\* private chat or in a group where no enumerated member is present
OutsiderCase ==
    /\ Gated
    /\ ~is_admin(last.update)
    /\ config.monthly_user_budgets # Star
    /\ ~Enumerated
    /\ (~last.update.group \/ ~EnumeratedMemberPresent)

\* C13: an unenumerated identity that is not an administrator, budgets being
\* restricted, is denied in a private chat and in a group where no enumerated
\* member is present, and the evaluation that denies it creates no guest ledger
\* entry.
C13_OutsiderDenied ==
    [][ IsWithinBudget =>
          (OutsiderCase' =>
              /\ ~last'.allowed
              /\ (GUESTS \in DOMAIN usage') <=> (GUESTS \in DOMAIN usage)) ]_vars

\* denied in a group without enumerated members, the guest pool still without entry
C13_Witness ==
    /\ OutsiderCase
    /\ last.update.group
    /\ ~last.allowed
    /\ GUESTS \notin DOMAIN usage

\* denied in a private chat
C13_WitnessPrivate ==
    /\ OutsiderCase
    /\ ~last.update.group
    /\ ~last.allowed
    /\ GUESTS \notin DOMAIN usage

\* "value > 0" of a remaining budget
Positive(amount) == amount.inf \/ amount.amount > 0

\* what get_remaining_budget answers for the event is_within_budget has just judged
RemainingNow == get_remaining_budget(usage, last.update).remaining

\* C14: the verdict of the gate and the reported remaining budget agree for every
\* identity and ledger state: is_within_budget allows exactly when
\* get_remaining_budget returns a value greater than zero.
C14_VerdictMatchesRemaining ==
    Gated => (last.allowed <=> Positive(RemainingNow))

\* C14 (what the two functions do): they agree for administrators, unrestricted
\* budgets and enumerated identities; an unenumerated identity is always reported
\* with zero remaining, also when the guest pool admits it.
C14_VerdictMatchesRemainingEnumerated ==
    Gated =>
        /\ (is_admin(last.update) \/ config.monthly_user_budgets = Star \/ Enumerated)
              => (last.allowed <=> Positive(RemainingNow))
        /\ (~is_admin(last.update) /\ config.monthly_user_budgets # Star /\ ~Enumerated)
              => RemainingNow = Amount(0)

\* a guest admitted by the gate and reported with nothing left
C14_Witness ==
    /\ GuestCase
    /\ last.allowed
    /\ RemainingNow = Amount(0)

\* the month cost of the ledger entry of a key, in cents
MonthCostOf(key) == get_current_cost(usage[key])[2]

\* C15: the gate is evaluated before the action and ignores the action's own
\* cost: an enumerated identity is allowed exactly when its recorded month cost is
\* below its budget; the recording that follows adds the whole cost of the action,
\* also beyond the budget; and within a month the recorded cost never decreases,
\* so that once it is at or above the budget every later evaluation of that month
\* denies.
C15_GateIgnoresActionCost ==
    [][ /\ IsWithinBudget =>
              (EnumeratedWithBudget' => (last'.allowed <=> MonthCost' < Budget'))
        /\ RecordChat =>
              \E n \in TokenAmounts :
                  MonthCostOf(last.update.user_id)' =
                      MonthCostOf(last.update.user_id) + n * config.token_price
        /\ (today'.month = today.month) =>
              \A k \in DOMAIN usage : MonthCostOf(k)' >= MonthCostOf(k) ]_vars

\* scenario B: budget 500, month cost 499, one action of 2 recorded, then denied
C15_Witness ==
    /\ EnumeratedWithBudget
    /\ Budget = 500
    /\ usage_logs[last.update.user_id].cost_month = 499
    /\ usage[last.update.user_id].tokens_month = 2
    /\ MonthCost = 501
    /\ ~last.allowed

\* the case of C17: enumerated, not an administrator, budgets restricted, and no
\* entry of the budget list at the identity's position
EnumeratedWithoutBudget ==
    /\ last.at = today
    /\ ~is_admin(last.update)
    /\ config.monthly_user_budgets # Star
    /\ Enumerated
    /\ Position > Len(split(config.monthly_user_budgets, ","))

\* C17: an enumerated identity that is not an administrator and whose position
\* is past the end of the budget list is denied by is_within_budget and reported
\* with zero remaining by get_remaining_budget, each with the warning
\* 'No budget set for user', at every such position.
C17_MissingBudgetDenied ==
    EnumeratedWithoutBudget =>
        /\ (last.op = "is_within_budget") =>
              (~last.allowed /\ last.warning = "no_budget")
        /\ (last.op = "get_remaining_budget") =>
              (last.remaining = Amount(0) /\ last.warning = "no_budget")

\* position 3 of a budget list of one entry: denied with the warning
C17_Witness ==
    /\ EnumeratedWithoutBudget
    /\ Position = 3
    /\ last.op = "is_within_budget"
    /\ ~last.allowed
    /\ last.warning = "no_budget"

\* position 2 of a budget list of one entry: reported with zero remaining
C17_WitnessRemaining ==
    /\ EnumeratedWithoutBudget
    /\ Position = 2
    /\ last.op = "get_remaining_budget"
    /\ last.remaining = Amount(0)

----------------------------------------------------------------------------
(* Claims about split_into_chunks *)

\* the chunk that starts at offset (k - 1) * size of the text
ChunkAt(t, size, k) == SubSeq(t, (k - 1) * size + 1, Min(k * size, Len(t)))

\* C19: chunking round trip: for every text and capacity > 0 the chunks of
\* split_into_chunks, concatenated in order, give the text back exactly, and they
\* do not overlap: chunk k is the part of the text between the offsets
\* (k - 1) * capacity and k * capacity.
C19_ChunkRoundTrip ==
    chunked.called =>
        /\ Concat(chunked.result) = chunked.text
        /\ \A k \in 1..Len(chunked.result) :
              chunked.result[k] = ChunkAt(chunked.text, chunked.size, k)

\* five characters at capacity 2: three chunks, the last one shorter
C19_Witness ==
    /\ chunked.called
    /\ chunked.text = <<"a", "b", "a", "a", "b">>
    /\ chunked.size = 2
    /\ chunked.result = << <<"a", "b">>, <<"a", "a">>, <<"b">> >>

\* ceil(n / d) for d > 0
CeilDiv(n, d) == (n + d - 1) \div d

\* C20: chunk sizes: split_into_chunks returns exactly ceil(len(text) / capacity)
\* chunks, none for the empty text; every chunk but the last has exactly capacity
\* characters and the last one has between 1 and capacity characters.
C20_ChunkSizes ==
    chunked.called =>
        LET n == Len(chunked.result)
        IN  /\ n = CeilDiv(Len(chunked.text), chunked.size)
            /\ (chunked.text = <<>>) => n = 0
            /\ \A k \in 1..(n - 1) : Len(chunked.result[k]) = chunked.size
            /\ (n > 0) => /\ Len(chunked.result[n]) >= 1
                          /\ Len(chunked.result[n]) <= chunked.size

\* a text whose length is a multiple of the capacity: every chunk is full
C20_Witness ==
    /\ chunked.called
    /\ Len(chunked.text) = 4
    /\ chunked.size = 2
    /\ Len(chunked.result) = 2
    /\ Len(chunked.result[2]) = 2

\* the empty text has no chunk
C20_WitnessEmpty == chunked.called /\ chunked.text = <<>> /\ chunked.result = <<>>

----------------------------------------------------------------------------
(* Claims about the turns *)

\* the priced operations of the backend
Priced == {"get_chat_response", "generate_image", "transcribe"}

\* the calls of the turn so far that are gates
GateEvents == {k \in 1..Len(turn.trace) : turn.trace[k].op \notin Priced}

\* the calls of the turn so far that are priced operations
PricedEvents == {k \in 1..Len(turn.trace) : turn.trace[k].op \in Priced}

\* C16: in a turn of prompt, image or transcribe no priced operation of the
\* backend is invoked unless is_allowed and then is_within_budget were evaluated
\* earlier in that turn, in that order, and both allowed; a gate that denies
\* stops the turn: after it the turn makes no call at all.
C16_GatesBeforePriced ==
    /\ \A k \in PricedEvents :
          \E a, b \in GateEvents :
             /\ a < b
             /\ b < k
             /\ turn.trace[a] = Event("is_allowed", TRUE)
             /\ turn.trace[b] = Event("is_within_budget", TRUE)
             /\ \A g \in GateEvents : g < b => g = a
    /\ \A g \in GateEvents :
          ~turn.trace[g].ok => /\ Len(turn.trace) = g
                               /\ turn.pc = "done"
                               /\ turn.reply \in {"disallowed", "budget_reached"}

\* a turn of transcribe that made its two priced calls past both gates
C16_Witness ==
    /\ turn.handler = "transcribe"
    /\ turn.trace = <<Event("is_allowed", TRUE), Event("is_within_budget", TRUE),
                      Event("transcribe", TRUE), Event("get_chat_response", TRUE)>>

\* the access-control gate alone stopped a turn
C16_WitnessDisallowed ==
    /\ turn.pc = "done"
    /\ turn.trace = <<Event("is_allowed", FALSE)>>
    /\ turn.reply = "disallowed"

\* the budget gate alone stopped a turn that the access-control gate let pass
C16_WitnessBudgetReached ==
    /\ turn.pc = "done"
    /\ turn.trace = <<Event("is_allowed", TRUE), Event("is_within_budget", FALSE)>>
    /\ turn.reply = "budget_reached"

\* the messages of the except clauses of image, transcribe and prompt
FailureReplies == {"failed_image", "failed_transcribe", "failed_response"}

\* a priced operation of this turn raised
PricedRaised ==
    /\ turn.raised
    /\ PricedEvents # {}
    /\ ~turn.trace[Len(turn.trace)].ok

\* C18: a failed priced action is never recorded: when generate_image,
\* transcribe or a chat completion raises, the handler goes to its except clause
\* and sends the failure to the user, and the trackers of the acting identity and
\* of the guests are what they were when the call was made.
C18_FailedActionNotRecorded ==
    PricedRaised =>
        /\ turn.pc \in {"except", "done"}
        /\ (turn.pc = "done") => turn.reply \in FailureReplies
        /\ usage = turn.before
        /\ \A key \in {turn.update.user_id, GUESTS} \cap DOMAIN usage :
              usage[key] = turn.before[key]

\* the chat completion of a guest raised after the transcription was recorded:
\* the failure was sent and the guests' tracker has the transcription only
C18_Witness ==
    /\ PricedRaised
    /\ turn.pc = "done"
    /\ turn.handler = "transcribe"
    /\ turn.op = "get_chat_response"
    /\ turn.reply = "failed_transcribe"
    /\ GUESTS \in DOMAIN usage
    /\ usage[GUESTS].seconds_month > 0
    /\ usage[GUESTS].tokens_month = 0

\* image generation raised
C18_WitnessImage ==
    /\ PricedRaised
    /\ turn.pc = "done"
    /\ turn.op = "generate_image"
    /\ turn.reply = "failed_image"

\* the chat completion of prompt raised
C18_WitnessPrompt ==
    /\ PricedRaised
    /\ turn.pc = "done"
    /\ turn.handler = "prompt"
    /\ turn.reply = "failed_response"

\* is_allowed denied the turn
AccessDenied == turn.trace # <<>> /\ turn.trace[1] = Event("is_allowed", FALSE)

\* C30: access control has no ledger side effects: a turn of prompt, image,
\* transcribe or stats that is_allowed denied creates no tracker, for the user
\* or for the guests, and changes no tracker: self.usage is what it was when
\* the turn began, and the turn ends with the denial.
C30_AccessDenialLeavesLedger ==
    AccessDenied =>
        /\ usage = turn.before
        /\ DOMAIN usage = DOMAIN turn.before
        /\ Len(turn.trace) = 1
        /\ turn.pc = "done"
        /\ turn.reply = "disallowed"

\* a turn of stats was denied after an earlier turn had created a tracker
C30_Witness ==
    /\ AccessDenied
    /\ turn.handler = "stats"
    /\ turn.turns = 2
    /\ DOMAIN usage = {1}
    /\ turn.update.user_id = 2

\* a turn of prompt of a group without enumerated member was denied with no
\* tracker at all
C30_WitnessPrompt ==
    /\ AccessDenied
    /\ turn.handler = "prompt"
    /\ turn.update.group
    /\ usage = EmptyDict

\* what stats reads from the tracker of key (lines 73-76): the totals of today
\* and the totals of the month
Totals(key) ==
    LET t == usage[key]
    IN  [today |-> <<get_current_token_usage(t)[1], get_current_image_count(t)[1],
                     get_current_transcription_duration(t)[1], get_current_cost(t)[1]>>,
         month |-> <<get_current_token_usage(t)[2], get_current_image_count(t)[2],
                     get_current_transcription_duration(t)[2], get_current_cost(t)[2]>>]

Zero == <<0, 0, 0, 0>>

\* C22: ledger rollover: the totals queried on the day after a day D of the
\* same month are zero for today and, for the month, what they were on day D;
\* queried after the month has changed, the totals of today and of the month
\* are zero.
C22_LedgerRollover ==
    [][\A key \in DOMAIN usage :
         /\ (usage' = usage /\ today'.month = today.month /\ today'.day = today.day + 1) =>
                /\ Totals(key)'.today = Zero
                /\ Totals(key)'.month = Totals(key).month
         /\ (usage' = usage /\ today'.month # today.month) =>
                /\ Totals(key)'.today = Zero
                /\ Totals(key)'.month = Zero]_vars

\* tokens were recorded on day 1 and stats is asked on day 2 of the same month:
\* no tokens today, the tokens of day 1 in the month
C22_Witness ==
    /\ Reported
    /\ today = [day |-> 2, month |-> 1]
    /\ usage[last.update.user_id].day = 1
    /\ usage[last.update.user_id].tokens_today > 0
    /\ Totals(last.update.user_id).today = Zero
    /\ Totals(last.update.user_id).month[1] = usage[last.update.user_id].tokens_today
    /\ Totals(last.update.user_id).month[4] > 0

\* tokens were recorded in month 1 and stats is asked in month 2
C22_WitnessMonth ==
    /\ Reported
    /\ today.month = 2
    /\ usage[last.update.user_id].month = 1
    /\ usage[last.update.user_id].tokens_month > 0
    /\ Totals(last.update.user_id).today = Zero
    /\ Totals(last.update.user_id).month = Zero

\* the handler has ended and its latest call of the backend returned
BackendSucceeded ==
    /\ turn.pc = "done"
    /\ turn.trace # <<>>
    /\ turn.trace[Len(turn.trace)].op \in
          {"generate_image", "transcribe", "get_chat_response"}
    /\ turn.trace[Len(turn.trace)].ok

\* the tracker of the acting identity differs from what it was when the latest
\* call of the backend was made
RecordedSinceCall ==
    usage[turn.update.user_id] # turn.before[turn.update.user_id]

\* C35: every priced call of the backend that succeeded is recorded in the
\* ledger of the acting identity, whatever happens to the delivery afterwards.
C35_SuccessRecorded == BackendSucceeded => RecordedSinceCall

\* a call that succeeded and whose reply was delivered is recorded
C35_DeliveredRecorded ==
    (BackendSucceeded /\ turn.reply = "answer") => RecordedSinceCall

\* an image was generated, sending the photo failed, and nothing was recorded
C35_ImageNotRecorded ==
    /\ BackendSucceeded
    /\ turn.handler = "image"
    /\ turn.reply = "failed_image"
    /\ ~RecordedSinceCall

\* a chat completion returned, sending the reply failed, and nothing was recorded
C35_ChatNotRecorded ==
    /\ BackendSucceeded
    /\ turn.handler = "prompt"
    /\ turn.reply = "failed_response"
    /\ ~RecordedSinceCall

----------------------------------------------------------------------------
(* Claims about cancellation *)

\* a step that issues a transport send, edit or delete, or changes what was
\* delivered
TransportStep ==
    \/ did' # did /\ did'.calls # <<>>
    \/ chat' # chat
    \/ deleted' # deleted
    \/ pc = "except" /\ pc' = "failed"

\* C23: once the turn has been cancelled while suspended, it issues no further
\* transport send, edit or delete, and what was delivered stays as it is.
C23_NoCallAfterCancel == [][cancelled => ~TransportStep]_vars

\* a cancellation at a sleep, at an in-flight edit or while the next frame is
\* awaited ends the turn: no step follows
C23_UnwoundIsFinal == [][pc # "cancelled"]_vars

\* a cancelled turn that went on to deliver a message
C23_SentAfterCancel ==
    /\ cancelled
    /\ pc = "fetch"
    /\ did.branch = "first"
    /\ CallsOk(did.calls)
    /\ sent_message # None

----------------------------------------------------------------------------
(* Claims about concurrent turns *)

\* the tokens the tasks k.. recorded to the tracker of key, on any day or on day
RECURSIVE RecordedTokens(_, _, _)
RecordedTokens(key, day, k) ==
    IF k > Len(tasks) THEN 0
    ELSE (IF key \in tasks[k].keys /\ day \in {0, tasks[k].at.day}
          THEN tasks[k].tokens ELSE 0)
         + RecordedTokens(key, day, k + 1)

\* C21: ledger mutations are atomic per identity under concurrent turns: in
\* every interleaving of the turns, the totals of each tracker (of a user or of
\* the guests) are the sums of the amounts the turns recorded to it: no
\* rollover-plus-add is interleaved with another and no update is lost.
C21_NoLostUpdate ==
    \A key \in DOMAIN usage :
        /\ usage[key].tokens_month = RecordedTokens(key, 0, 1)
        /\ usage[key].cost_month =
              usage_logs[key].cost_month + RecordedTokens(key, 0, 1) * config.token_price
        /\ usage[key].tokens_today = RecordedTokens(key, usage[key].day, 1)
        /\ usage[key].cost_today =
              RecordedTokens(key, usage[key].day, 1) * config.token_price

\* two turns of two guests passed the budget gate before either recorded; both
\* recorded to the tracker of the guests
C21_Witness ==
    /\ \A k \in 1..Len(tasks) : /\ tasks[k].pc = "done"
                                 /\ GUESTS \in tasks[k].keys
                                 /\ GUESTS \in DOMAIN tasks[k].seen
                                 /\ tasks[k].seen[GUESTS] = 0
                                 /\ tasks[k].tokens > 0
    /\ Len(tasks) >= 2
    /\ usage[GUESTS].tokens_month >= 2

\* two turns of the same user, recorded on different days
C21_WitnessSameUser ==
    /\ Len(tasks) >= 2
    /\ tasks[1].pc = "done"
    /\ tasks[2].pc = "done"
    /\ tasks[1].update.user_id = 1
    /\ tasks[2].update.user_id = 1
    /\ 1 \in DOMAIN tasks[1].seen
    /\ 1 \in DOMAIN tasks[2].seen
    /\ tasks[1].seen[1] = 0
    /\ tasks[2].seen[1] = 0
    /\ tasks[1].at.day = 2
    /\ tasks[2].at.day = 1
    /\ 1 \in tasks[1].keys
    /\ 1 \in tasks[2].keys
    /\ usage[1].tokens_month = tasks[1].tokens + tasks[2].tokens
    /\ usage[1].tokens_today = tasks[1].tokens

\* the identities of the enumerated list that are not administrators, with the
\* budget of their position
EnumeratedUsers ==
    {user_id \in UserIds :
        /\ In(str(user_id), split(config.allowed_user_ids, ","))
        /\ ~In(str(user_id), split(config.admin_user_ids, ","))}

UserBudget(user_id) ==
    float(split(config.monthly_user_budgets, ",")
            [index(split(config.allowed_user_ids, ","), str(user_id)) + 1])

\* the cost of the most expensive completion
MaxActionCost ==
    (CHOOSE n \in TokenAmounts : \A m \in TokenAmounts : m <= n) * config.token_price

\* C33: the recorded month cost of an enumerated identity never exceeds its
\* budget by more than the cost of one priced action, also when several turns
\* of the identity are in flight at once.
C33_OvershootBounded ==
    \A user_id \in EnumeratedUsers \cap DOMAIN usage :
        usage[user_id].cost_month <= UserBudget(user_id) + MaxActionCost

\* two turns of an enumerated identity passed the budget gate before either
\* recorded, and both recorded
C33_BothAdmitted ==
    /\ Len(tasks) >= 2
    /\ tasks[1].pc = "done"
    /\ tasks[2].pc = "done"
    /\ tasks[1].update.user_id = tasks[2].update.user_id
    /\ tasks[1].update.user_id \in EnumeratedUsers
    /\ tasks[1].update.user_id \in tasks[1].keys \cap tasks[2].keys
    /\ usage[tasks[1].update.user_id].cost_month
         > UserBudget(tasks[1].update.user_id) + MaxActionCost

\* the turn was admitted by the guest branch of is_within_budget (lines 633-643)
GuestPath(update) ==
    /\ ~is_admin(update)
    /\ config.monthly_user_budgets # Star
    /\ ~In(str(update.user_id), split(config.allowed_user_ids, ","))

\* the tokens the tasks k.. recorded after an admission by the guest branch
RECURSIVE GuestTokens(_)
GuestTokens(k) ==
    IF k > Len(tasks) THEN 0
    ELSE (IF tasks[k].pc = "done" /\ tasks[k].update.user_id \in tasks[k].keys
             /\ GuestPath(tasks[k].update)
          THEN tasks[k].tokens ELSE 0)
         + GuestTokens(k + 1)

\* C34: the guest pool is charged only for priced actions admitted through the
\* guest branch: its month tokens are the sum of what the turns admitted by
\* that branch recorded, so an administrator that is not enumerated adds
\* nothing to it.
C34_GuestPoolOnlyGuests ==
    GUESTS \in DOMAIN usage => usage[GUESTS].tokens_month = GuestTokens(1)

\* an administrator that is not enumerated has recorded after a guest created
\* the tracker of the guests, and the pool holds more than the guests used
C34_AdminCharged ==
    \E k \in 1..Len(tasks) :
        /\ tasks[k].pc = "done"
        /\ is_admin(tasks[k].update)
        /\ tasks[k].tokens > 0
        /\ GUESTS \in DOMAIN usage
        /\ usage[GUESTS].tokens_month > GuestTokens(1)

----------------------------------------------------------------------------
(* Claims about the base cutoff *)

\* the value of a step function with steps above the lengths 50, 200 and 1000
Step(n, values) ==
    IF n <= 50 THEN values[1]
    ELSE IF n <= 200 THEN values[2]
    ELSE IF n <= 1000 THEN values[3]
    ELSE values[4]

\* C29: the base flood-control cutoff is a non-decreasing step function of the
\* content length (group 50/90/120/180, private 15/25/45/90, with steps above
\* the lengths 50, 200 and 1000), and for every length the cutoff of a group chat
\* is strictly larger than the cutoff of a private chat.
C29_CutoffStepFunction ==
    cut.called =>
        /\ cut.at_n <= cut.at_m
        /\ cut.at_n = Step(cut.n, IF cut.group THEN <<50, 90, 120, 180>>
                                                ELSE <<15, 25, 45, 90>>)
        /\ cut.at_m = Step(cut.m, IF cut.group THEN <<50, 90, 120, 180>>
                                                ELSE <<15, 25, 45, 90>>)
        /\ IF cut.group THEN cut.at_n > cut.other_at_n
                        ELSE cut.other_at_n > cut.at_n

\* the step above length 50 in a group chat
C29_Witness ==
    /\ cut.called
    /\ cut.group
    /\ cut.n = 50
    /\ cut.m = 51
    /\ cut.at_n = 50
    /\ cut.at_m = 90
    /\ cut.other_at_n = 15

\* the longest message of a private chat
C29_WitnessLongest ==
    /\ cut.called
    /\ ~cut.group
    /\ cut.n = 1001
    /\ cut.m = 4096
    /\ cut.at_n = 90
    /\ cut.at_m = 90
    /\ cut.other_at_n = 180

====
